---- MODULE Spec2Model ----
(***************************************************************************)
(* Download orchestration of author-today-cli: the counting Semaphore,     *)
(* DownloadManager.downloadAudioBook, downloadChaptersParallel (plan,      *)
(* retry loop, Promise.all join) and downloadChapter (transfer through a   *)
(* '<destination>.tmp' file committed by fs.move).                         *)
(*                                                                         *)
(* One behaviour is a sequence of runs of downloadAudioBook over the same  *)
(* chapter list and the same book directory; a run ends by returning, by   *)
(* throwing or by the process being killed.  File contents are abstracted  *)
(* to: "absent", "partial" (an incompletely received stream), "new" (a     *)
(* completely received stream of the current run), "old" (a completely     *)
(* received stream of an earlier run).                                     *)
(*                                                                         *)
(* Specifications: Spec (runs one after another), SpecFated (one run, the  *)
(* fate of each chapter fixed), SpecRecover (a killed run and its re-runs),*)
(* SpecSem (the Semaphore with arbitrary callers), SpecCli (a run with the *)
(* options parsed from the command line), SpecAux (a run whose book-level  *)
(* auxiliary steps fail, with the cover files), SpecStale (a run on a      *)
(* directory with stale temp files), SpecRate (the RateLimiter with        *)
(* concurrent callers), SpecPath (chapterPath alone), SpecProgress (the    *)
(* progress samples of one chapter, in double arithmetic), SpecLive (one   *)
(* run under weak fairness).                                               *)
(***************************************************************************)
EXTENDS Integers, Sequences, FiniteSets, TLC

\* ---------------------------------------------------------------- bounds
NumChapters == 2
MaxConcurrency == 1
MaxRetriesInput == 1
\* seconds of clock time followed in the rate limiter specification
MaxSeconds == 4
\* longest chapter title, in characters
MaxTitleLen == 2
\* bytes of one response followed in the progress specification
MaxBytes == 40

\* ------------------------------------------------------ program constants
DefaultConcurrency == 3
DefaultMaxRetries == 3

Chapters == 1..NumChapters

\* values of options.concurrentDownloads / options.maxRetries; 0 stands for
\* a falsy value (unset or 0), which `||` replaces by the default
ConcurrencyInputs == 0..MaxConcurrency
RetriesInputs == 0..MaxRetriesInput

VARIABLES
    pcBook,             \* position of downloadAudioBook
    options,            \* DownloadOptions of the current run: skipExisting,
                        \* concurrentDownloads, maxRetries
    fate,               \* environment: "fail": every attempt of the chapter fails,
                        \* "ok": one of its attempts succeeds, "any": either
    fs,                 \* book directory: path -> content
    permits,            \* Semaphore.permits
    waitingQueue,       \* Semaphore.waitingQueue (chapter of each resolver)
    pc,                 \* position of each chapter task
    attempts,           \* `attempts` of each chapter task
    started,            \* calls of downloadChapter per chapter (history)
    retryWaits,         \* 2000 ms retry delays waited per chapter (history)
    outcome,            \* what the run reported for each chapter (history)
    taskResult,         \* settlement of each promise of downloadPromises
    completedChapters,  \* `completedChapters`
    unlinkPending,      \* chapters with an fs.unlink(tempPath) in flight
    lastAllCompleted,   \* the previous run returned with every chapter Completed
    auxFailed,          \* book-level auxiliary steps of this run whose failure
                        \* was caught (history)
    limiter,            \* the RateLimiter and the executeWithRetry calls on it
    call,               \* a function of the program taken alone: its name,
                        \* its arguments and, once it has run, its result
    cover,              \* the book's cover: url: book.coverUrl is set; files:
                        \* content of cover.jpg / .png / .webp; tmp: content of
                        \* the cover temp file; requests: cover requests made
                        \* by this run (history)
    activeDownloads,    \* keys of the Map `activeDownloads` (chapters)
    series,             \* downloadSeries: pc: its position; works: seriesOrder
                        \* of series.works; i: books started; options; unjoined:
                        \* chapter tasks of earlier books that are not finished
    auth                \* the API client's tokens and, for each API request
                        \* under way, the chain of requests its handling has
                        \* made (the request, then refresh-token requests)

vars == <<pcBook, options, fate, fs,
          permits, waitingQueue, pc, attempts, started, retryWaits, outcome,
          taskResult, completedChapters, unlinkPending, lastAllCompleted,
          auxFailed, cover, limiter, call, series, auth, activeDownloads>>

\* ------------------------------------------------------------------ paths
\* chapterPath of the chapter at list position i (the NNN prefix makes it a
\* function of the position)
OutputPath(i) == <<i, "mp3">>

\* const tempPath = `${outputPath}.tmp`
TempPathSame(p) == p
TempPath(p) == <<p[1], "mp3.tmp">>

Paths == {OutputPath(i) : i \in Chapters} \cup {TempPath(OutputPath(i)) : i \in Chapters}

\* file.endsWith('.tmp')
EndsWithTmpNever(p) == FALSE
EndsWithTmp(p) == p[2] = "mp3.tmp"

\* fs.pathExists
PathExists(f, p) == f[p] # "absent"

\* ---------------------------------------------------------------- options
\* a value of a command-line option: a string (sequence of characters), or
\* undefined
Undefined == <<"undefined">>

IsDigit(ch) == ch \in {"0", "1", "2", "3", "4", "5", "6", "7", "8", "9"}
DigitVal(ch) ==
    CASE ch = "0" -> 0 [] ch = "1" -> 1 [] ch = "2" -> 2 [] ch = "3" -> 3
      [] ch = "4" -> 4 [] ch = "5" -> 5 [] ch = "6" -> 6 [] ch = "7" -> 7
      [] ch = "8" -> 8 [] ch = "9" -> 9
Digit(n) == CHOOSE ch \in {"0", "1", "2", "3", "4", "5", "6", "7", "8", "9"} :
                DigitVal(ch) = n

\* a JavaScript number: NaN or an integer
NaN == [nan |-> TRUE, val |-> 0]
Num(n) == [nan |-> FALSE, val |-> n]

\* parseInt(str): leading blanks are skipped, then an optional sign, then
\* decimal digits up to the first other character; no digit: NaN
RECURSIVE TrimLeft(_)
TrimLeft(str) == IF str # <<>> /\ Head(str) = " " THEN TrimLeft(Tail(str))
                 ELSE str
RECURSIVE ReadDigits(_, _)
ReadDigits(str, acc) ==
    IF str = <<>> \/ ~IsDigit(Head(str)) THEN acc
    ELSE ReadDigits(Tail(str), [n |-> acc.n + 1,
                                v |-> acc.v * 10 + DigitVal(Head(str))])
ParseInt(str) ==
    LET t == TrimLeft(str)
        signed == t # <<>> /\ Head(t) \in {"-", "+"}
        d == ReadDigits(IF signed THEN Tail(t) ELSE t, [n |-> 0, v |-> 0])
    IN IF d.n = 0 THEN NaN
       ELSE Num(IF signed /\ Head(t) = "-" THEN 0 - d.v ELSE d.v)

\* parseInt(options.concurrent || '3'), parseInt(options.retries || '3')
CliNumber(str) ==
    ParseInt(IF str = Undefined \/ str = <<>> THEN <<"3">> ELSE str)

\* the number as the field of DownloadOptions (0 stands for every falsy
\* number: 0 and NaN)
OptionField(v) == IF v.nan THEN 0 ELSE v.val

\* what a user can type after --concurrent / --retries
CliStrings(max) ==
    {Undefined, <<>>, <<"a">>, <<"-">>, <<"0">>, <<"-", "0">>,
     <<"0", ".", "5">>, <<"1", "a">>, <<"a", "1">>, <<" ", "1">>, <<"+", "1">>}
    \cup {<<Digit(n)>> : n \in 1..max}
    \cup {<<"-", Digit(n)>> : n \in 1..max}

\* options.concurrentDownloads || 3
EffectiveConcurrency(o) == IF o = 0 THEN DefaultConcurrency ELSE o

\* options.maxRetries || 3
EffectiveMaxAttempts(o) == IF o = 0 THEN DefaultMaxRetries ELSE o

\* -------------------------------------------------------------- semaphore
\* Semaphore.acquire on the gate state s = [permits, queue, granted]
SemAcquireNoCheck(s, c) ==
    [s EXCEPT !.permits = @ - 1, !.granted = @ \cup {c}]
SemAcquire(s, c) ==
    IF s.permits > 0
    THEN [s EXCEPT !.permits = @ - 1, !.granted = @ \cup {c}]
    ELSE [s EXCEPT !.queue = Append(@, c)]

\* Semaphore.release: the freed permit goes to the oldest waiter, if any
SemReleaseNewest(p, q) ==
    IF Len(q) > 0
    THEN [permits |-> p, queue |-> SubSeq(q, 1, Len(q) - 1), wake |-> {q[Len(q)]}]
    ELSE [permits |-> p + 1, queue |-> q, wake |-> {}]
SemReleaseNoWake(p, q) == [permits |-> p + 1, queue |-> q, wake |-> {}]
SemReleaseAlsoCounts(p, q) ==
    IF Len(q) > 0
    THEN [permits |-> p + 1, queue |-> Tail(q), wake |-> {Head(q)}]
    ELSE [permits |-> p + 1, queue |-> q, wake |-> {}]
SemRelease(p, q) ==
    IF Len(q) > 0
    THEN [permits |-> p, queue |-> Tail(q), wake |-> {Head(q)}]
    ELSE [permits |-> p + 1, queue |-> q, wake |-> {}]

\* chaptersToDownload.map(async ... await semaphore.acquire() ...): the
\* callbacks run in list order up to their first await
RECURSIVE AcquireAllBackwards(_, _)
AcquireAllBackwards(plan, s) ==
    IF plan = <<>> THEN s
    ELSE AcquireAllBackwards(SubSeq(plan, 1, Len(plan) - 1),
                             SemAcquire(s, plan[Len(plan)]))

RECURSIVE AcquireAll(_, _)
AcquireAll(plan, s) ==
    IF plan = <<>> THEN s
    ELSE AcquireAll(Tail(plan), SemAcquire(s, Head(plan)))

\* ------------------------------------------------------------------- plan
\* if (options.skipExisting && await fs.pathExists(chapterPath)) continue
SkipNever(skip, exists) == FALSE
SkipInverted(skip, exists) == skip /\ ~exists
SkipFilter(skip, exists) == skip /\ exists

RECURSIVE PlanFrom(_, _, _)
PlanFrom(i, skip, f) ==
    IF i > NumChapters THEN <<>>
    ELSE IF SkipFilter(skip, PathExists(f, OutputPath(i)))
         THEN PlanFrom(i + 1, skip, f)
         ELSE <<i>> \o PlanFrom(i + 1, skip, f)

SeqToSet(s) == {s[k] : k \in 1..Len(s)}

\* ------------------------------------------------------------- retry loop
\* while (attempts < maxAttempts)
WhileCondInclusive(a, m) == a <= m
WhileCond(a, m) == a < m

\* the catch branch: if (attempts < maxAttempts) wait and retry, else report
CatchRethrowsLast(a, m) == IF a < m THEN "retry" ELSE "throw"
CatchMissing(a, m) == "throw"
CatchAlwaysRetry(a, m) == "retry"
CatchOutcome(a, m) == IF a < m THEN "retry" ELSE "failed"

\* `break` after a successful downloadChapter
NoBreak == FALSE
BreakOnSuccess == TRUE

\* await Promise.all(downloadPromises)
PromiseRace(plan, res) ==
    IF \E c \in plan : res[c] = "rejected" THEN "rejected"
    ELSE IF plan = {} \/ \E c \in plan : res[c] = "resolved" THEN "resolved"
    ELSE "pending"
PromiseAll(plan, res) ==
    IF \E c \in plan : res[c] = "rejected" THEN "rejected"
    ELSE IF \A c \in plan : res[c] = "resolved" THEN "resolved"
    ELSE "pending"

\* ------------------------------------------------------------------ cover
\* const extensions = ['.jpg', '.png', '.webp']
CoverExts == {".jpg", ".png", ".webp"}

\* coverExists: one of cover.jpg, cover.png, cover.webp exists
CoverExistsJpgOnly(files) == files[".jpg"] # "absent"
CoverExists(files) == \E e \in CoverExts : files[e] # "absent"

\* a book without coverUrl in a directory without cover files
NoCover == [url |-> FALSE, files |-> [e \in CoverExts |-> "absent"],
            tmp |-> "absent", requests |-> 0]

\* the cover files as a later process finds them
CoverAge(cv) ==
    [url |-> cv.url,
     files |-> [e \in CoverExts |-> IF cv.files[e] = "new" THEN "old"
                                    ELSE cv.files[e]],
     tmp |-> IF cv.tmp = "new" THEN "old" ELSE cv.tmp,
     requests |-> 0]

\* ----------------------------------------------------------- rate limiter
\* constructor(minIntervalMs = 2000); api.ts builds new RateLimiter(2000)
MinIntervalMs == 2000
\* executeWithRetry(operation, maxRetries = 3, baseDelay = 2000)
LimiterMaxRetries == 3
BaseDelay == 2000
\* error.response.data.retryAfter || 5, in seconds
DefaultRetryAfter == 5
\* retryAfter * 1000; also the step of the clock
Second == 1000

\* concurrent callers of executeWithRetry on the one RateLimiter of the API
RateCallers == 1..(NumChapters + 1)
RatePcs == {"idle", "wait", "operation", "backoff", "returned", "threw"}

\* a fresh RateLimiter (lastRequestTime = 0) in a process whose clock
\* Date.now() is far beyond minInterval; no call made yet.  starts: the
\* times at which operation() was called (history); invoked: calls of
\* operation() made for each caller (history); lastError: `lastError`
NoLimiter == [now |-> MinIntervalMs, lastRequestTime |-> 0,
              pc |-> [k \in RateCallers |-> "idle"],
              wake |-> [k \in RateCallers |-> 0],
              attempt |-> [k \in RateCallers |-> 1],
              starts |-> <<>>,
              invoked |-> [k \in RateCallers |-> 0],
              lastError |-> [k \in RateCallers |-> "none"]]

\* Math.pow(2, n)
RECURSIVE Pow2(_)
Pow2(n) == IF n <= 0 THEN 1 ELSE 2 * Pow2(n - 1)

MathMax(a, b) == IF a >= b THEN a ELSE b

\* delay = Math.max(retryAfter * 1000, baseDelay * Math.pow(2, attempt - 1))
\* with retryAfter = error.response.data.retryAfter || 5
BackoffDelay(retryAfter, attempt) ==
    MathMax((IF retryAfter = 0 THEN DefaultRetryAfter ELSE retryAfter) * Second,
            BaseDelay * Pow2(attempt - 1))

\* the end of waitIfNeeded and the call that follows it in executeWithRetry:
\* this.lastRequestTime = Date.now(); return await operation()
StartOperation(l, k) ==
    [l EXCEPT !.lastRequestTime = l.now,
              !.pc[k] = "operation",
              !.starts = Append(@, l.now),
              !.invoked[k] = @ + 1]

\* waitIfNeeded up to its await: the wait is computed from lastRequestTime as
\* it is now, and lastRequestTime is written only after the wait
WaitIfNeeded(l, k) ==
    LET timeSinceLastRequest == l.now - l.lastRequestTime
    IN  IF timeSinceLastRequest < MinIntervalMs
        THEN [l EXCEPT !.pc[k] = "wait",
                       !.wake[k] = l.now + (MinIntervalMs - timeSinceLastRequest)]
        ELSE StartOperation(l, k)

\* ------------------------------------------------------ functions alone
\* downloadSeries is not running
SeriesPcs == {"none", "loop", "done", "threw"}
NoSeries == [pc |-> "none", works |-> <<>>, i |-> 0,
             options |-> [concurrentDownloads |-> 0, maxRetries |-> 0],
             unjoined |-> 0]

\* API requests made concurrently through the one axios instance
AuthRequests == {1, 2}

\* the client holds a saved token and no request is under way.  chain[r]:
\* the requests that the handling of API request r has in flight, the
\* newest last; refreshCalls, resends: requests sent to the refresh-token
\* endpoint, and re-sends of the API request itself (history)
NoAuth == [token |-> "saved",
           chain |-> [r \in AuthRequests |-> <<>>],
           result |-> [r \in AuthRequests |-> "none"],
           refreshCalls |-> [r \in AuthRequests |-> 0],
           resends |-> [r \in AuthRequests |-> 0]]

CallFns == {"none", "chapterPath", "progress", "plan", "pages"}
NoCall == [fn |-> "none", args |-> <<>>, result |-> <<>>]

\* ------------------------------------------------------------------ state
\* the options while no run is under way
NoOptions == [skipExisting |-> TRUE, concurrentDownloads |-> 0, maxRetries |-> 0]

TaskPcs == {"none", "waiting", "url", "request", "streaming", "moving",
            "retryWait", "finished"}
\* a task between the return of acquire() and release()
HoldingPcs == {"url", "request", "streaming", "moving", "retryWait"}
Outcomes == {"Pending", "Skipped", "Completed", "Failed"}
Contents == {"absent", "partial", "old", "new"}
BookEnded == {"returned", "threw", "killed"}
BookRunning == {"cleanup", "saveInfo", "cover", "coverStuck", "additional",
                "getChapters", "chapters", "parallel"}

\* const concurrentDownloads = options.concurrentDownloads || 3
concurrentDownloads == EffectiveConcurrency(options.concurrentDownloads)

\* const maxAttempts = options.maxRetries || 3
maxAttempts == EffectiveMaxAttempts(options.maxRetries)

Holders == {c \in Chapters : pc[c] \in HoldingPcs}
InPlan == {c \in Chapters : pc[c] # "none"}

TypeOK ==
    /\ pcBook \in {"idle"} \cup BookRunning \cup BookEnded
    /\ options \in [skipExisting : BOOLEAN, concurrentDownloads : Int,
                     maxRetries : Int]
    /\ fate \in [Chapters -> {"any", "fail", "ok"}]
    /\ fs \in [Paths -> Contents]
    /\ permits \in Int
    /\ waitingQueue \in Seq(Chapters)
    /\ pc \in [Chapters -> TaskPcs]
    /\ attempts \in [Chapters -> Nat]
    /\ started \in [Chapters -> Nat]
    /\ retryWaits \in [Chapters -> Nat]
    /\ outcome \in [Chapters -> Outcomes]
    /\ taskResult \in [Chapters -> {"pending", "resolved", "rejected"}]
    /\ completedChapters \in Nat
    /\ unlinkPending \subseteq Chapters
    /\ lastAllCompleted \in BOOLEAN
    /\ auxFailed \subseteq {"cover", "annotation"}
    /\ cover \in [url : BOOLEAN, files : [CoverExts -> {"absent", "old", "new"}],
                  tmp : Contents, requests : Nat]
    /\ limiter \in [now : Nat, lastRequestTime : Nat,
                    pc : [RateCallers -> RatePcs],
                    wake : [RateCallers -> Nat],
                    attempt : [RateCallers -> 1..LimiterMaxRetries],
                    starts : Seq(Nat),
                    invoked : [RateCallers -> Nat],
                    lastError : [RateCallers -> {"none", "error", "rateLimit"}]]
    /\ call.fn \in CallFns
    /\ activeDownloads \subseteq Chapters
    /\ series.pc \in SeriesPcs
    /\ auth.token \in {"saved", "refreshed", "cleared"}
    /\ auth.result \in [AuthRequests -> {"none", "pending", "resolved", "rejected"}]

Init ==
    /\ pcBook = "idle"
    /\ options = NoOptions
    /\ fate = [c \in Chapters |-> "any"]
    /\ fs = [p \in Paths |-> "absent"]
    /\ permits = 0
    /\ waitingQueue = <<>>
    /\ pc = [c \in Chapters |-> "none"]
    /\ attempts = [c \in Chapters |-> 0]
    /\ started = [c \in Chapters |-> 0]
    /\ retryWaits = [c \in Chapters |-> 0]
    /\ outcome = [c \in Chapters |-> "Pending"]
    /\ taskResult = [c \in Chapters |-> "pending"]
    /\ completedChapters = 0
    /\ unlinkPending = {}
    /\ lastAllCompleted = FALSE
    /\ auxFailed = {}
    /\ cover = NoCover
    /\ limiter = NoLimiter
    /\ activeDownloads = {}
    /\ series = NoSeries
    /\ auth = NoAuth
    /\ call = NoCall


\* ------------------------------------------------------- book-level steps
\* content received by an earlier run is "old"
Age(f) == [p \in Paths |-> IF f[p] = "new" THEN "old" ELSE f[p]]

\* downloadAudioBook is called in a fresh process: the options, the fate of
\* the chapters' transfers, and fs.ensureDir(bookDir)
StartRun(skip, co, ro, ft, dirOk) ==
    /\ pcBook = "idle"
    /\ pcBook' = IF dirOk THEN "cleanup" ELSE "threw"
    /\ options' = [skipExisting |-> skip, concurrentDownloads |-> co,
                   maxRetries |-> ro]
    /\ fate' = ft
    /\ UNCHANGED <<fs, permits, waitingQueue, pc, attempts, started, retryWaits, outcome,
                   taskResult, completedChapters, unlinkPending,
                   lastAllCompleted, auxFailed, cover, limiter, call, series, auth, activeDownloads>>

\* cleanupTempFiles: unlink every '.tmp' file in directory order (the
\* chapters' NNN names come before 'cover...'); the first failing unlink
\* (failAt) ends the loop silently; failAt = 0: none fails
CleanupTempFiles(failAt) ==
    /\ pcBook = "cleanup"
    /\ failAt # 0 => PathExists(fs, TempPath(OutputPath(failAt)))
    /\ fs' = [p \in Paths |->
                IF EndsWithTmp(p) /\ (failAt = 0 \/ p[1] < failAt)
                THEN "absent" ELSE fs[p]]
    /\ cover' = IF failAt = 0 THEN [cover EXCEPT !.tmp = "absent"] ELSE cover
    /\ UNCHANGED <<limiter, call, series, auth, activeDownloads>>
    /\ pcBook' = "saveInfo"
    /\ UNCHANGED <<options, fate,
                   permits, waitingQueue, pc, attempts, started, retryWaits, outcome,
                   taskResult, completedChapters, unlinkPending,
                   lastAllCompleted, auxFailed>>

\* saveBookInfo: fs.writeJSON is awaited outside any try
SaveBookInfo(ok) ==
    /\ pcBook = "saveInfo"
    /\ pcBook' = IF ok THEN "cover" ELSE "threw"
    /\ UNCHANGED <<options, fate, fs,
                   permits, waitingQueue, pc, attempts, started, retryWaits, outcome,
                   taskResult, completedChapters, unlinkPending,
                   lastAllCompleted, auxFailed, cover, limiter, call, series, auth, activeDownloads>>

\* what the cover step can meet: "none": no coverUrl, or coverExists;
\* "requestError": axios.get rejects; "writeError": the writer of the cover
\* temp file emits 'error'; "moveError": fs.move rejects; "streamCrash",
\* "streamStall": the response stream fails in mid-transfer
CoverHows == {"none", "ok", "requestError", "writeError", "moveError",
              "streamCrash", "streamStall"}

\* downloadCover as seen by its caller.  `await axios.get` is inside the
\* try; the promise that waits for the writer is returned from inside the
\* try without await, so its rejection (writer error, failed move) is not
\* caught by the catch and rejects downloadCover.  The response stream has no
\* 'error' listener: an 'error' event ends the process as an uncaught
\* exception, a stream that stops without one leaves the promise pending.
CoverEnd(how) ==
    CASE how \in {"none", "ok", "requestError"} -> "additional"
      [] how \in {"writeError", "moveError"} -> "threw"
      [] how = "streamCrash" -> "killed"
      [] OTHER -> "coverStuck"

\* if (book.coverUrl && !await this.coverExists(bookDir))
\*     await this.downloadCover(book.coverUrl, bookDir)
\* ext: the extension downloadCover derives from the URL or the content
\* type; unlinked: the fire-and-forget unlink of the cover temp file after a
\* writer error took effect before the process ended
DownloadCover(how, ext, unlinked) ==
    /\ pcBook = "cover"
    /\ how = "none" <=> ~(cover.url /\ ~CoverExists(cover.files))
    /\ pcBook' = CoverEnd(how)
    /\ auxFailed' = IF how = "requestError" THEN auxFailed \cup {"cover"}
                    ELSE IF how = "streamCrash" THEN {} ELSE auxFailed
    /\ cover' =
          CASE how = "none" -> cover
            [] how = "requestError" -> [cover EXCEPT !.requests = @ + 1]
            [] how = "ok" -> [cover EXCEPT !.requests = @ + 1,
                                           !.files[ext] = "new",
                                           !.tmp = "absent"]
            [] how = "writeError" ->
                 [cover EXCEPT !.requests = @ + 1,
                               !.tmp = IF unlinked THEN "absent" ELSE "partial"]
            [] how = "moveError" -> [cover EXCEPT !.requests = @ + 1,
                                                  !.tmp = "new"]
            [] how = "streamCrash" -> [cover EXCEPT !.tmp = "partial"]
            [] OTHER -> [cover EXCEPT !.requests = @ + 1, !.tmp = "partial"]
    /\ UNCHANGED <<limiter, call, series, auth, activeDownloads>>
    /\ UNCHANGED <<options, fate, fs,
                   permits, waitingQueue, pc, attempts, started, retryWaits, outcome,
                   taskResult, completedChapters, unlinkPending,
                   lastAllCompleted>>

\* downloadAdditionalFiles: fs.writeFile(annotation.txt) inside try/catch;
\* "none": the book has no annotation
AdditionalEndNoCatch(how) == IF how = "writeError" THEN "threw"
                             ELSE "getChapters"
AdditionalEnd(how) == "getChapters"

DownloadAdditionalFiles(how) ==
    /\ pcBook = "additional"
    /\ pcBook' = AdditionalEnd(how)
    /\ auxFailed' = IF how = "writeError" THEN auxFailed \cup {"annotation"}
                    ELSE auxFailed
    /\ UNCHANGED <<options, fate, fs,
                   permits, waitingQueue, pc, attempts, started, retryWaits, outcome,
                   taskResult, completedChapters, unlinkPending,
                   lastAllCompleted, cover, limiter, call, series, auth, activeDownloads>>

\* chapters = book.chapters, or api.getAudioChapters(book.id) when that list
\* is empty (awaited outside any try)
GetAudioChapters(ok) ==
    /\ pcBook = "getChapters"
    /\ pcBook' = IF ok THEN "chapters" ELSE "threw"
    /\ UNCHANGED <<options, fate, fs,
                   permits, waitingQueue, pc, attempts, started, retryWaits, outcome,
                   taskResult, completedChapters, unlinkPending,
                   lastAllCompleted, auxFailed, cover, limiter, call, series, auth, activeDownloads>>

\* the map callbacks of tasks whose loop condition is false from the start:
\* each task that has its permit calls semaphore.release() at once, which
\* wakes the oldest waiter, and so on
RECURSIVE ReleaseAll(_)
ReleaseAll(s) ==
    IF s.granted = {} THEN s
    ELSE LET c == CHOOSE x \in s.granted : TRUE
             r == SemRelease(s.permits, s.queue)
         IN ReleaseAll([permits |-> r.permits, queue |-> r.queue,
                        granted |-> (s.granted \ {c}) \cup r.wake,
                        done |-> s.done \cup {c}])

\* downloadChaptersParallel up to `await Promise.all`: the plan, the early
\* return on an empty plan, new Semaphore, and the map whose callbacks run
\* to their first suspension on I/O (a granted task has called
\* downloadChapter and awaits the provider, or has left the loop without an
\* attempt when maxAttempts < 1; the others sit in waitingQueue)
Launch ==
    /\ pcBook = "chapters"
    /\ LET plan == PlanFrom(1, options.skipExisting, fs)
           a == AcquireAll(plan, [permits |-> concurrentDownloads,
                                  queue |-> <<>>, granted |-> {},
                                  done |-> {}])
           s == IF WhileCond(0, maxAttempts) THEN a ELSE ReleaseAll(a)
       IN /\ outcome' = [c \in Chapters |->
                            IF c \in SeqToSet(plan) THEN "Pending" ELSE "Skipped"]
          /\ pcBook' = IF plan = <<>> THEN "returned" ELSE "parallel"
          /\ permits' = IF plan = <<>> THEN permits ELSE s.permits
          /\ waitingQueue' = s.queue
          /\ pc' = [c \in Chapters |->
                      IF c \in s.granted THEN "url"
                      ELSE IF c \in s.done THEN "finished"
                      ELSE IF c \in SeqToSet(s.queue) THEN "waiting"
                      ELSE "none"]
          /\ started' = [c \in Chapters |-> IF c \in s.granted THEN 1 ELSE 0]
          /\ retryWaits' = [c \in Chapters |-> 0]
          /\ taskResult' = [c \in Chapters |->
                              IF c \in s.done THEN "resolved" ELSE taskResult[c]]
    /\ activeDownloads' = {}
    /\ UNCHANGED <<options, fate, fs,
                   attempts, completedChapters,
                   unlinkPending, lastAllCompleted, auxFailed, cover, limiter, call, series, auth>>

\* -------------------------------------------------------- chapter tasks
\* where chapter task c goes next: "again" calls downloadChapter, "wait"
\* starts the 2000 ms timer, "exit" leaves the loop and calls
\* semaphore.release() (the woken waiter runs on to its provider call),
\* "throw" rejects the task's promise.  semaphore.release() is the statement
\* after the while loop and nowhere else
ReleasesOnWait(how) == how \in {"exit", "wait"}
Releases(how) == how = "exit"

Control(c, how) ==
    LET r == IF Releases(how) THEN SemRelease(permits, waitingQueue)
             ELSE [permits |-> permits, queue |-> waitingQueue, wake |-> {}]
    IN /\ permits' = r.permits
       /\ waitingQueue' = r.queue
       /\ pc' = [x \in Chapters |->
                   IF x = c THEN (CASE how = "again" -> "url"
                                    [] how = "wait" -> "retryWait"
                                    [] OTHER -> "finished")
                   ELSE IF x \in r.wake THEN "url" ELSE pc[x]]
       /\ started' = [x \in Chapters |->
                        IF (x = c /\ how = "again") \/ x \in r.wake
                        THEN started[x] + 1 ELSE started[x]]
       /\ retryWaits' = [retryWaits EXCEPT ![c] =
                            IF how = "wait" THEN @ + 1 ELSE @]
       /\ taskResult' = [taskResult EXCEPT ![c] =
                            CASE how = "exit" -> "resolved"
                              [] how = "throw" -> "rejected"
                              [] OTHER -> @]

\* activeDownloads.set(chapter.id.toString(), ...) and
\* activeDownloads.delete(chapter.id.toString()); chapter ids are distinct
ActiveSet(m, c) == m \cup {c}
ActiveDeleteNothing(m, c) == m
ActiveDelete(m, c) == m \ {c}

\* the loop condition as evaluated with a attempts made
LoopBack(c, a) == IF WhileCond(a, maxAttempts) THEN Control(c, "again")
                  ELSE Control(c, "exit")

\* downloadChapter rejected: the catch branch
FailNotCounted(c) ==
    /\ Control(c, "wait")
    /\ activeDownloads' = ActiveDelete(activeDownloads, c)
    /\ UNCHANGED <<attempts, outcome, completedChapters>>

Fail(c) ==
    LET a == attempts[c] + 1
        co == CatchOutcome(a, maxAttempts)
    IN /\ attempts' = [attempts EXCEPT ![c] = a]
       /\ activeDownloads' = ActiveDelete(activeDownloads, c)
       /\ CASE co = "retry" ->
                 /\ Control(c, "wait")
                 /\ UNCHANGED <<outcome, completedChapters>>
            [] co = "failed" ->
                 /\ outcome' = [outcome EXCEPT ![c] = "Failed"]
                 /\ completedChapters' = completedChapters + 1
                 /\ LoopBack(c, a)
            [] OTHER ->
                 /\ Control(c, "throw")
                 /\ UNCHANGED <<outcome, completedChapters>>

\* downloadChapter resolved: the rest of the try block
Succeed(c) ==
    /\ activeDownloads' = ActiveDelete(activeDownloads, c)
    /\ outcome' = [outcome EXCEPT ![c] = "Completed"]
    /\ completedChapters' = completedChapters + 1
    /\ IF BreakOnSuccess THEN Control(c, "exit") ELSE LoopBack(c, attempts[c])
    /\ UNCHANGED attempts

\* environment: this attempt of c may fail / may succeed (a chapter of fate
\* "ok" succeeds at its last attempt at the latest)
MayFail(c) == fate[c] = "ok" => attempts[c] + 1 < maxAttempts
MaySucceed(c) == fate[c] # "fail"

TasksLive == pcBook \in {"parallel", "returned", "threw"}

Frame == UNCHANGED <<pcBook, options, fate, lastAllCompleted, auxFailed, cover, limiter, call, series, auth>>
TaskFrame == UNCHANGED <<permits, waitingQueue, attempts, started, retryWaits, outcome,
                         taskResult, completedChapters, activeDownloads>>

\* api.getChapterAudioUrl answered with a URL: the axios request is issued
UrlOk(c) ==
    /\ TasksLive /\ pc[c] = "url"
    /\ pc' = [pc EXCEPT ![c] = "request"]
    /\ TaskFrame /\ Frame /\ UNCHANGED <<fs, unlinkPending>>

\* api.getChapterAudioUrl answered null (it catches its own errors)
UrlNull(c) ==
    /\ TasksLive /\ pc[c] = "url" /\ MayFail(c)
    /\ Fail(c)
    /\ Frame /\ UNCHANGED <<fs, unlinkPending>>

\* the response arrived: fs.createWriteStream(tempPath) and the pipe
ResponseOk(c) ==
    /\ TasksLive /\ pc[c] = "request"
    /\ fs' = [fs EXCEPT ![TempPath(OutputPath(c))] = "partial"]
    /\ pc' = [pc EXCEPT ![c] = "streaming"]
    /\ TaskFrame /\ Frame /\ UNCHANGED unlinkPending

\* response.data emitted 'data': the progress callback of the task runs
StreamData(c) ==
    /\ TasksLive /\ pc[c] = "streaming"
    /\ activeDownloads' = ActiveSet(activeDownloads, c)
    /\ UNCHANGED <<permits, waitingQueue, attempts, started, retryWaits, outcome,
                   taskResult, completedChapters>>
    /\ UNCHANGED pc /\ Frame /\ UNCHANGED <<fs, unlinkPending>>

\* axios rejected
RequestError(c) ==
    /\ TasksLive /\ pc[c] = "request" /\ MayFail(c)
    /\ Fail(c)
    /\ Frame /\ UNCHANGED <<fs, unlinkPending>>

\* the stream ended and the writer finished: fs.move is issued
StreamEnd(c) ==
    /\ TasksLive /\ pc[c] = "streaming"
    /\ fs' = [fs EXCEPT ![TempPath(OutputPath(c))] = "new"]
    /\ pc' = [pc EXCEPT ![c] = "moving"]
    /\ TaskFrame /\ Frame /\ UNCHANGED unlinkPending

\* response.data.on('error', reject)
StreamError(c) ==
    /\ TasksLive /\ pc[c] = "streaming" /\ MayFail(c)
    /\ Fail(c)
    /\ Frame /\ UNCHANGED <<fs, unlinkPending>>

\* writer.on('error'): fs.unlink(tempPath) is started, then reject
WriteError(c) ==
    /\ TasksLive /\ pc[c] = "streaming" /\ MayFail(c)
    /\ unlinkPending' = unlinkPending \cup {c}
    /\ Fail(c)
    /\ Frame /\ UNCHANGED fs

\* fs.move(tempPath, outputPath) without { overwrite: true }: fs-extra
\* rejects with 'dest already exists.' when the destination exists
MoveExists(c) ==
    /\ TasksLive /\ pc[c] = "moving"
    /\ PathExists(fs, OutputPath(c))
    /\ Fail(c)
    /\ Frame /\ UNCHANGED <<fs, unlinkPending>>

MoveOk(c) ==
    /\ TasksLive /\ pc[c] = "moving" /\ MaySucceed(c)
    /\ ~PathExists(fs, OutputPath(c))
    /\ fs' = [fs EXCEPT ![OutputPath(c)] = fs[TempPath(OutputPath(c))],
                        ![TempPath(OutputPath(c))] = "absent"]
    /\ Succeed(c)
    /\ Frame /\ UNCHANGED unlinkPending

\* the rename itself failed (I/O error)
MoveError(c) ==
    /\ TasksLive /\ pc[c] = "moving" /\ MayFail(c)
    /\ ~PathExists(fs, OutputPath(c))
    /\ Fail(c)
    /\ Frame /\ UNCHANGED <<fs, unlinkPending>>

\* setTimeout(resolve, 2000) fired; an unlink started 2000 ms earlier has
\* settled by then
RetryTimer(c) ==
    /\ TasksLive /\ pc[c] = "retryWait" /\ c \notin unlinkPending
    /\ LoopBack(c, attempts[c])
    /\ Frame /\ UNCHANGED <<fs, unlinkPending, attempts, outcome, completedChapters,
                            activeDownloads>>

\* the fire-and-forget fs.unlink(tempPath) settled; .catch(() => {})
UnlinkDone(c, ok) ==
    /\ pcBook # "killed" /\ c \in unlinkPending
    /\ unlinkPending' = unlinkPending \ {c}
    /\ fs' = IF ok THEN [fs EXCEPT ![TempPath(OutputPath(c))] = "absent"] ELSE fs
    /\ UNCHANGED pc /\ TaskFrame /\ Frame

\* await Promise.all(downloadPromises) settled
JoinAll ==
    /\ pcBook = "parallel"
    /\ LET r == PromiseAll(InPlan, taskResult)
       IN /\ r # "pending"
          /\ pcBook' = IF r = "resolved" THEN "returned" ELSE "threw"
    /\ UNCHANGED <<options, fate, fs,
                   permits, waitingQueue, pc, attempts, started, retryWaits, outcome,
                   taskResult, completedChapters, unlinkPending,
                   lastAllCompleted, auxFailed, cover, limiter, call, series, auth, activeDownloads>>

\* the process is killed: its memory, every task and every pending file
\* operation are gone, the directory stays as it is
Kill ==
    /\ \/ pcBook \in BookRunning
       \/ pcBook \in {"returned", "threw"} /\ unlinkPending # {}
    /\ pcBook' = "killed"
    /\ permits' = 0
    /\ waitingQueue' = <<>>
    /\ pc' = [c \in Chapters |-> "none"]
    /\ attempts' = [c \in Chapters |-> 0]
    /\ started' = [c \in Chapters |-> 0]
    /\ retryWaits' = [c \in Chapters |-> 0]
    /\ outcome' = [c \in Chapters |-> "Pending"]
    /\ taskResult' = [c \in Chapters |-> "pending"]
    /\ completedChapters' = 0
    /\ unlinkPending' = {}
    /\ auxFailed' = {}
    /\ cover' = [cover EXCEPT !.requests = 0]
    /\ activeDownloads' = {}
    /\ UNCHANGED <<limiter, call, series, auth>>
    /\ UNCHANGED <<options, fate, fs, lastAllCompleted>>

\* the process has ended (returned, thrown or killed) and nothing of it is
\* left but the book directory
ProcessExit ==
    /\ pcBook \in BookEnded
    /\ unlinkPending = {}
    /\ pcBook' = "idle"
    /\ lastAllCompleted' = (pcBook = "returned"
                            /\ \A c \in Chapters : outcome[c] = "Completed")
    /\ fs' = Age(fs)
    /\ options' = NoOptions
    /\ fate' = [c \in Chapters |-> "any"]
    /\ permits' = 0
    /\ waitingQueue' = <<>>
    /\ pc' = [c \in Chapters |-> "none"]
    /\ attempts' = [c \in Chapters |-> 0]
    /\ started' = [c \in Chapters |-> 0]
    /\ retryWaits' = [c \in Chapters |-> 0]
    /\ outcome' = [c \in Chapters |-> "Pending"]
    /\ taskResult' = [c \in Chapters |-> "pending"]
    /\ completedChapters' = 0
    /\ auxFailed' = {}
    /\ cover' = CoverAge(cover)
    /\ activeDownloads' = {}
    /\ UNCHANGED <<limiter, call, series, auth>>
    /\ UNCHANGED unlinkPending

\* one step of a chapter's transfer whose destination was free when the plan
\* was built
Transfer(c) ==
    \/ UrlOk(c)
    \/ UrlNull(c)
    \/ ResponseOk(c)
    \/ RequestError(c)
    \/ StreamEnd(c)
    \/ StreamError(c)
    \/ WriteError(c)
    \/ MoveOk(c)
    \/ MoveError(c)
    \/ RetryTimer(c)

\* one step of downloadAudioBook and of the file operations it started (the
\* unlinks of cleanupTempFiles succeed; of the failures of the cover and
\* annotation steps, those that end the run)
BookStep ==
    \/ CleanupTempFiles(0)
    \/ \E ok \in BOOLEAN : SaveBookInfo(ok)
    \/ \E how \in CoverHows \ {"requestError"}, ext \in CoverExts,
          unlinked \in BOOLEAN : DownloadCover(how, ext, unlinked)
    \/ \E how \in {"none", "ok"} : DownloadAdditionalFiles(how)
    \/ \E ok \in BOOLEAN : GetAudioChapters(ok)
    \/ Launch
    \/ \E c \in Chapters, ok \in BOOLEAN : UnlinkDone(c, ok)
    \/ JoinAll

AnyFate == [c \in Chapters |-> "any"]
FixedFates == [Chapters -> {"fail", "ok"}]

\* runs one after another on the same directory, each attempt failing or
\* succeeding freely
Next ==
    \/ \E skip \in BOOLEAN, co \in ConcurrencyInputs, ro \in RetriesInputs,
          dirOk \in BOOLEAN : StartRun(skip, co, ro, AnyFate, dirOk)
    \/ BookStep
    \/ \E c \in Chapters : Transfer(c)
    \/ \E c \in Chapters : MoveExists(c)
    \/ Kill
    \/ ProcessExit

Spec == Init /\ [][Next]_vars

\* one run with skipExisting = true (what every caller in index.ts passes)
\* on a directory that holds chapters of earlier runs, the fate of every
\* chapter's transfer fixed when the run starts
InitDir ==
    /\ pcBook = "idle"
    /\ options = NoOptions
    /\ fate = AnyFate
    /\ fs \in {f \in [Paths -> {"absent", "old"}] :
                 \A p \in Paths : EndsWithTmp(p) => f[p] = "absent"}
    /\ permits = 0
    /\ waitingQueue = <<>>
    /\ pc = [c \in Chapters |-> "none"]
    /\ attempts = [c \in Chapters |-> 0]
    /\ started = [c \in Chapters |-> 0]
    /\ retryWaits = [c \in Chapters |-> 0]
    /\ outcome = [c \in Chapters |-> "Pending"]
    /\ taskResult = [c \in Chapters |-> "pending"]
    /\ completedChapters = 0
    /\ unlinkPending = {}
    /\ lastAllCompleted = FALSE
    /\ auxFailed = {}
    /\ cover = NoCover
    /\ limiter = NoLimiter
    /\ activeDownloads = {}
    /\ series = NoSeries
    /\ auth = NoAuth
    /\ call = NoCall

NextFated ==
    \/ \E co \in ConcurrencyInputs, ro \in RetriesInputs, ft \in FixedFates,
          dirOk \in BOOLEAN : StartRun(TRUE, co, ro, ft, dirOk)
    \/ BookStep
    \/ \E c \in Chapters : Transfer(c)
    \/ Kill

SpecFated == InitDir /\ [][NextFated]_vars

\* every chapter's transfer succeeds (at its last attempt at the latest)
AllOk == [c \in Chapters |-> "ok"]

\* a killed process is followed by a new call of downloadAudioBook with
\* skipExisting = true on the directory the kill left behind, and this time
\* every chapter's transfer succeeds
Rerun(co, ro) ==
    /\ pcBook = "killed"
    /\ pcBook' = "cleanup"
    /\ fs' = Age(fs)
    /\ options' = [skipExisting |-> TRUE, concurrentDownloads |-> co,
                   maxRetries |-> ro]
    /\ fate' = AllOk
    /\ cover' = CoverAge(cover)
    /\ UNCHANGED <<limiter, call, series, auth, activeDownloads>>
    /\ UNCHANGED <<permits, waitingQueue, pc, attempts, started, retryWaits, outcome,
                   taskResult, completedChapters, unlinkPending,
                   lastAllCompleted, auxFailed>>

\* a run with any options on a directory of earlier runs, killed at any of
\* its steps, then re-runs as above (which may be killed again)
NextRecover ==
    \/ \E skip \in BOOLEAN, co \in ConcurrencyInputs, ro \in RetriesInputs :
          StartRun(skip, co, ro, AnyFate, TRUE)
    \/ BookStep
    \/ \E c \in Chapters : Transfer(c)
    \/ \E c \in Chapters : MoveExists(c)
    \/ Kill
    \/ \E co \in ConcurrencyInputs, ro \in RetriesInputs : Rerun(co, ro)

SpecRecover == InitDir /\ [][NextRecover]_vars

\* ------------------------------------------------- the Semaphore by itself
\* class Semaphore used by arbitrary callers: each caller calls acquire(),
\* is suspended in waitingQueue or goes on, calls release(), and may come
\* back.  "woken": release() has called the caller's resolver, the caller's
\* continuation has not run yet.
SemCallers == 1..(NumChapters + 2)
SemSizes == 1..(MaxConcurrency + 1)
SemPcs == {"none", "waiting", "woken", "holding"}

\* new Semaphore(n)
InitSem ==
    /\ pcBook = "idle"
    /\ options \in {[NoOptions EXCEPT !.concurrentDownloads = n] : n \in SemSizes}
    /\ permits = options.concurrentDownloads
    /\ waitingQueue = <<>>
    /\ pc = [c \in SemCallers |-> "none"]
    /\ fate = AnyFate
    /\ fs = [p \in Paths |-> "absent"]
    /\ attempts = [c \in Chapters |-> 0]
    /\ started = [c \in Chapters |-> 0]
    /\ retryWaits = [c \in Chapters |-> 0]
    /\ outcome = [c \in Chapters |-> "Pending"]
    /\ taskResult = [c \in Chapters |-> "pending"]
    /\ completedChapters = 0
    /\ unlinkPending = {}
    /\ lastAllCompleted = FALSE
    /\ auxFailed = {}
    /\ cover = NoCover
    /\ limiter = NoLimiter
    /\ activeDownloads = {}
    /\ series = NoSeries
    /\ auth = NoAuth
    /\ call = NoCall

SemFrame == UNCHANGED <<pcBook, options, fate, fs, attempts, started, retryWaits, outcome,
                        taskResult, completedChapters, unlinkPending,
                        lastAllCompleted, auxFailed, cover, limiter, call, series, auth, activeDownloads>>

\* caller c calls acquire()
CallAcquire(c) ==
    /\ pc[c] = "none"
    /\ LET s == SemAcquire([permits |-> permits, queue |-> waitingQueue,
                            granted |-> {}], c)
       IN /\ permits' = s.permits
          /\ waitingQueue' = s.queue
          /\ pc' = [pc EXCEPT ![c] = IF c \in s.granted THEN "holding"
                                     ELSE "waiting"]
    /\ SemFrame

\* the continuation of a caller whose resolver was called runs
Resume(c) ==
    /\ pc[c] = "woken"
    /\ pc' = [pc EXCEPT ![c] = "holding"]
    /\ UNCHANGED <<permits, waitingQueue>> /\ SemFrame

\* caller c calls release()
CallRelease(c) ==
    /\ pc[c] = "holding"
    /\ LET r == SemRelease(permits, waitingQueue)
       IN /\ permits' = r.permits
          /\ waitingQueue' = r.queue
          /\ pc' = [x \in SemCallers |->
                      IF x = c THEN "none"
                      ELSE IF x \in r.wake THEN "woken" ELSE pc[x]]
    /\ SemFrame

NextSem ==
    \/ \E c \in SemCallers : CallAcquire(c)
    \/ \E c \in SemCallers : Resume(c)
    \/ \E c \in SemCallers : CallRelease(c)

SpecSem == InitSem /\ [][NextSem]_vars

\* ------------------------------------------- a run started from the CLI
\* one run on an empty directory whose options are what the command line
\* gives: --concurrent and --retries are strings, parsed as in index.ts
NextCli ==
    \/ \E cs \in CliStrings(MaxConcurrency), rs \in CliStrings(MaxRetriesInput),
          dirOk \in BOOLEAN :
          StartRun(TRUE, OptionField(CliNumber(cs)), OptionField(CliNumber(rs)),
                   AnyFate, dirOk)
    \/ BookStep
    \/ \E c \in Chapters : Transfer(c)

SpecCli == Init /\ [][NextCli]_vars

\* ------------------------------------------ failing auxiliary steps
\* a failure of a book-level auxiliary step that its own catch handles
AuxStep ==
    \/ DownloadCover("requestError", ".jpg", TRUE)
    \/ DownloadAdditionalFiles("writeError")

\* one run with skipExisting = true and a given maxRetries, every chapter
\* succeeding at its last attempt at the latest, on an empty chapter
\* directory; the auxiliary steps may fail in every way
NextAux ==
    \/ \E co \in ConcurrencyInputs, dirOk \in BOOLEAN :
          StartRun(TRUE, co, MaxRetriesInput + 1, AllOk, dirOk)
    \/ BookStep
    \/ AuxStep
    \/ \E c \in Chapters : Transfer(c)

\* an empty chapter directory; the book has a cover URL or none, and at most
\* one cover file of an earlier run is there
InitCover ==
    /\ pcBook = "idle"
    /\ options = NoOptions
    /\ fate = AnyFate
    /\ fs = [p \in Paths |-> "absent"]
    /\ permits = 0
    /\ waitingQueue = <<>>
    /\ pc = [c \in Chapters |-> "none"]
    /\ attempts = [c \in Chapters |-> 0]
    /\ started = [c \in Chapters |-> 0]
    /\ retryWaits = [c \in Chapters |-> 0]
    /\ outcome = [c \in Chapters |-> "Pending"]
    /\ taskResult = [c \in Chapters |-> "pending"]
    /\ completedChapters = 0
    /\ unlinkPending = {}
    /\ lastAllCompleted = FALSE
    /\ auxFailed = {}
    /\ cover \in {[NoCover EXCEPT !.url = u, !.files = f] :
                     u \in BOOLEAN,
                     f \in {g \in [CoverExts -> {"absent", "old"}] :
                              Cardinality({e \in CoverExts : g[e] = "old"}) <= 1}}
    /\ limiter = NoLimiter
    /\ activeDownloads = {}
    /\ series = NoSeries
    /\ auth = NoAuth
    /\ call = NoCall

SpecAux == InitCover /\ [][NextAux]_vars

\* ------------------------------------------------ cleanup of stale temps
\* one run with skipExisting = true on a directory that earlier runs left
\* with stale temp files (partial, or complete and never committed), in
\* which an unlink of cleanupTempFiles may fail
InitStale ==
    /\ pcBook = "idle"
    /\ options = NoOptions
    /\ fate = AnyFate
    /\ fs \in {f \in [Paths -> {"absent", "partial", "old"}] :
                 \A p \in Paths : f[p] = "partial" => EndsWithTmp(p)}
    /\ permits = 0
    /\ waitingQueue = <<>>
    /\ pc = [c \in Chapters |-> "none"]
    /\ attempts = [c \in Chapters |-> 0]
    /\ started = [c \in Chapters |-> 0]
    /\ retryWaits = [c \in Chapters |-> 0]
    /\ outcome = [c \in Chapters |-> "Pending"]
    /\ taskResult = [c \in Chapters |-> "pending"]
    /\ completedChapters = 0
    /\ unlinkPending = {}
    /\ lastAllCompleted = FALSE
    /\ auxFailed = {}
    /\ cover = NoCover
    /\ limiter = NoLimiter
    /\ activeDownloads = {}
    /\ series = NoSeries
    /\ auth = NoAuth
    /\ call = NoCall

NextStale ==
    \/ \E co \in ConcurrencyInputs, ro \in RetriesInputs, dirOk \in BOOLEAN :
          StartRun(TRUE, co, ro, AnyFate, dirOk)
    \/ \E failAt \in Chapters : CleanupTempFiles(failAt)
    \/ BookStep
    \/ \E c \in Chapters : Transfer(c)

SpecStale == InitStale /\ [][NextStale]_vars

\* ------------------------------------------------- specification: SpecRate
\* the RateLimiter alone: callers invoke executeWithRetry concurrently (the
\* chapter tasks' getChapterAudioUrl calls, up to `concurrency` at a time)
RateFrame == UNCHANGED <<pcBook, options, fate, fs, permits, waitingQueue,
                         pc, attempts, started, retryWaits, outcome, taskResult,
                         completedChapters, unlinkPending, lastAllCompleted,
                         auxFailed, cover, call, series, auth, activeDownloads>>

\* the clock advances; a timer may fire at its time or later
RateTick ==
    /\ limiter.now < MinIntervalMs + MaxSeconds * Second
    /\ limiter' = [limiter EXCEPT !.now = @ + Second]
    /\ RateFrame

\* executeWithRetry is called: attempt = 1, await this.waitIfNeeded()
RateCall(k) ==
    /\ limiter.pc[k] = "idle"
    /\ limiter' = WaitIfNeeded(limiter, k)
    /\ RateFrame

\* the setTimeout of waitIfNeeded fires
RateWaitDone(k) ==
    /\ limiter.pc[k] = "wait"
    /\ limiter.now >= limiter.wake[k]
    /\ limiter' = StartOperation(limiter, k)
    /\ RateFrame

\* if (isRateLimitError && attempt < maxRetries)
RetryConditionAnyError(isRateLimitError, attempt) == attempt < LimiterMaxRetries
RetryCondition(isRateLimitError, attempt) ==
    isRateLimitError /\ attempt < LimiterMaxRetries

\* operation() settles: "ok" returns, "error" is rethrown, "rateLimit" (429,
\* TooManyRequests) is retried after a delay while attempt < maxRetries
RateOperationEnd(k, result, retryAfter) ==
    /\ limiter.pc[k] = "operation"
    /\ result = "rateLimit" \/ retryAfter = 0
    /\ limiter' =
         IF result = "ok" THEN [limiter EXCEPT !.pc[k] = "returned"]
         ELSE IF RetryCondition(result = "rateLimit", limiter.attempt[k])
         THEN LET delay == BackoffDelay(retryAfter, limiter.attempt[k])
              IN  [limiter EXCEPT !.lastRequestTime = limiter.now + delay,
                                  !.pc[k] = "backoff",
                                  !.wake[k] = limiter.now + delay,
                                  !.lastError[k] = result]
         ELSE [limiter EXCEPT !.pc[k] = "threw", !.lastError[k] = result]
    /\ RateFrame

\* the setTimeout of the backoff fires: continue, attempt++, waitIfNeeded
RateBackoffDone(k) ==
    /\ limiter.pc[k] = "backoff"
    /\ limiter.now >= limiter.wake[k]
    /\ limiter' = WaitIfNeeded([limiter EXCEPT !.attempt[k] = @ + 1], k)
    /\ RateFrame

NextRate ==
    \/ RateTick
    \/ \E k \in RateCallers : RateCall(k)
    \/ \E k \in RateCallers : RateWaitDone(k)
    \/ \E k \in RateCallers, result \in {"ok", "error", "rateLimit"},
          retryAfter \in {0, 1} : RateOperationEnd(k, result, retryAfter)
    \/ \E k \in RateCallers : RateBackoffDone(k)

SpecRate == Init /\ [][NextRate]_vars

\* ---------------------------------------------- specification: SpecPath
\* chapterPath taken alone; a string is a sequence of characters
\* String(n) for n >= 0
RECURSIVE ToDecimal(_)
ToDecimal(n) == IF n < 10 THEN <<Digit(n)>>
                ELSE Append(ToDecimal(n \div 10), Digit(n % 10))

RECURSIVE Repeat(_, _)
Repeat(ch, n) == IF n <= 0 THEN <<>> ELSE <<ch>> \o Repeat(ch, n - 1)

\* str.padStart(len, ch): pads on the left, never shortens
PadStartCutting(str, len, ch) ==
    LET s == Repeat(ch, len - Len(str)) \o str
    IN SubSeq(s, Len(s) - len + 1, Len(s))
PadStart(str, len, ch) == Repeat(ch, len - Len(str)) \o str

\* the characters of /[<>:"/\\|?*]/ and of /\s/
ForbiddenChars == {"<", ">", ":", "\"", "/", "\\", "|", "?", "*"}
WhiteSpace == {" ", "\t", "\n", "\r"}

\* .replace(/[<>:"/\\|?*]/g, '')
RECURSIVE RemoveForbidden(_)
RemoveForbidden(str) ==
    IF str = <<>> THEN <<>>
    ELSE IF Head(str) \in ForbiddenChars THEN RemoveForbidden(Tail(str))
    ELSE <<Head(str)>> \o RemoveForbidden(Tail(str))

\* .replace(/\s+/g, ' ')
RECURSIVE CollapseSpaces(_)
CollapseSpaces(str) ==
    IF str = <<>> THEN <<>>
    ELSE IF Head(str) \in WhiteSpace
    THEN IF Len(str) > 1 /\ str[2] \in WhiteSpace
         THEN CollapseSpaces(Tail(str))
         ELSE <<" ">> \o CollapseSpaces(Tail(str))
    ELSE <<Head(str)>> \o CollapseSpaces(Tail(str))

\* .trim()
RECURSIVE TrimRight(_)
TrimRight(str) ==
    IF str # <<>> /\ str[Len(str)] \in WhiteSpace
    THEN TrimRight(SubSeq(str, 1, Len(str) - 1)) ELSE str
RECURSIVE TrimStart(_)
TrimStart(str) ==
    IF str # <<>> /\ Head(str) \in WhiteSpace THEN TrimStart(Tail(str)) ELSE str
Trim(str) == TrimRight(TrimStart(str))

sanitizeFileName(fileName) == Trim(CollapseSpaces(RemoveForbidden(fileName)))

\* `${String(i + 1).padStart(3, '0')}. ${sanitizeFileName(title)}.mp3`
\* (path.join puts the same bookDir in front of every name)
ChapterPath(i, title) ==
    PadStart(ToDecimal(i + 1), 3, "0") \o <<".", " ">>
        \o sanitizeFileName(title) \o <<".", "m", "p", "3">>

\* characters of chapter titles, and the titles
TitleChars == {"a", "0", " ", "/"}
RECURSIVE TitlesOfLen(_)
TitlesOfLen(n) ==
    IF n = 0 THEN {<<>>}
    ELSE {Append(t, ch) : t \in TitlesOfLen(n - 1), ch \in TitleChars}
Titles == UNION {TitlesOfLen(n) : n \in 0..MaxTitleLen}

\* positions i of the loop over `chapters`: the first, and those where
\* String(i + 1) gains a digit, up to lists of more than 1000 chapters
ListPositions == {0, 9, 99, 999, 1000}

\* two entries of one chapter list
InitPath ==
    /\ pcBook = "idle"
    /\ options = NoOptions
    /\ fate = AnyFate
    /\ fs = [p \in Paths |-> "absent"]
    /\ permits = 0
    /\ waitingQueue = <<>>
    /\ pc = [c \in Chapters |-> "none"]
    /\ attempts = [c \in Chapters |-> 0]
    /\ started = [c \in Chapters |-> 0]
    /\ retryWaits = [c \in Chapters |-> 0]
    /\ outcome = [c \in Chapters |-> "Pending"]
    /\ taskResult = [c \in Chapters |-> "pending"]
    /\ completedChapters = 0
    /\ unlinkPending = {}
    /\ lastAllCompleted = FALSE
    /\ auxFailed = {}
    /\ cover = NoCover
    /\ limiter = NoLimiter
    /\ activeDownloads = {}
    /\ series = NoSeries
    /\ auth = NoAuth
    /\ call \in {[fn |-> "chapterPath",
                  args |-> [i |-> i, j |-> j, titleI |-> ti, titleJ |-> tj],
                  result |-> <<>>] :
                    i \in ListPositions, j \in ListPositions,
                    ti \in Titles, tj \in Titles}
    /\ call.args.i < call.args.j

\* the loop computes chapterPath for both entries
ComputeChapterPaths ==
    /\ call.fn = "chapterPath" /\ call.result = <<>>
    /\ call' = [call EXCEPT !.result =
                   <<ChapterPath(call.args.i, call.args.titleI),
                     ChapterPath(call.args.j, call.args.titleJ)>>]
    /\ UNCHANGED <<pcBook, options, fate, fs, permits, waitingQueue,
                   pc, attempts, started, retryWaits, outcome, taskResult,
                   completedChapters, unlinkPending, lastAllCompleted,
                   auxFailed, cover, limiter, series, auth, activeDownloads>>

NextPath == ComputeChapterPaths

SpecPath == InitPath /\ [][NextPath]_vars

\* ---------------------------------------------- specification: SpecProgress
\* the progress samples of downloadChapter taken alone.
\* A positive IEEE 754 double is 53 bits (most significant first, the first
\* one 1) and an exponent e: its value is 1.b2...b53 * 2^e
\* bits + 1 (one bit longer when every bit is 1)
BitsInc(bits) ==
    LET n == Len(bits)
        zeros == {i \in 1..n : bits[i] = 0}
    IN IF zeros = {} THEN <<1>> \o [i \in 1..n |-> 0]
       ELSE LET z == CHOOSE i \in zeros : \A k \in zeros : k <= i
            IN [i \in 1..n |-> IF i < z THEN bits[i]
                               ELSE IF i = z THEN 1 ELSE 0]

\* round to nearest, ties to even: bits holds at least 54 bits of the exact
\* value, inexact tells that more nonzero bits follow
RoundNearestEven(bits, inexact, e) ==
    LET keep == SubSeq(bits, 1, 53)
        sticky == inexact \/ \E i \in 55..Len(bits) : bits[i] = 1
        up == bits[54] = 1 /\ (sticky \/ keep[53] = 1)
        k == IF up THEN BitsInc(keep) ELSE keep
    IN IF Len(k) = 54 THEN [bits |-> SubSeq(k, 1, 53), e |-> e + 1]
       ELSE [bits |-> k, e |-> e]

\* n / d scaled by a power of two so that d <= n < 2d
RECURSIVE Normalize(_, _, _)
Normalize(n, d, e) ==
    IF n >= 2 * d THEN Normalize(n, 2 * d, e + 1)
    ELSE IF n < d THEN Normalize(2 * n, d, e - 1)
    ELSE [n |-> n, d |-> d, e |-> e]

\* the 8 bits of a number below 256
Byte(v) == [i \in 1..8 |-> (v \div (2 ^ (8 - i))) % 2]

\* the next 8 * k bits of r / d (r < d) and the remainder left
RECURSIVE QuotientBits(_, _, _)
QuotientBits(r, d, k) ==
    IF k = 0 THEN [bits |-> <<>>, r |-> r]
    ELSE LET rest == QuotientBits((r * 256) % d, d, k - 1)
         IN [bits |-> Byte((r * 256) \div d) \o rest.bits, r |-> rest.r]

\* downloadedSize / totalSize for positive integers: the bit before the
\* point and 56 bits after it, rounded to 53
DoubleDiv(n, d) ==
    LET s == Normalize(n, d, 0)
        q == QuotientBits(s.n - s.d, s.d, 7)
    IN RoundNearestEven(<<1>> \o q.bits, q.r # 0, s.e)

\* sum of two bit strings of equal length, one bit longer: the carry into a
\* place comes from the nearest lower place where both bits are 1 with no
\* place in between where both are 0
BitsAdd(a, b) ==
    LET n == Len(a)
        carry(i) == \E j \in (i + 1)..n :
                        /\ a[j] = 1 /\ b[j] = 1
                        /\ \A k \in (i + 1)..(j - 1) : a[k] + b[k] >= 1
        bit(i) == ((IF i = 0 THEN 0 ELSE a[i] + b[i])
                      + (IF carry(i) THEN 1 ELSE 0)) % 2
    IN [i \in 1..(n + 1) |-> bit(i - 1)]

Zeros(n) == [i \in 1..n |-> 0]

RECURSIVE StripZeros(_)
StripZeros(bits) ==
    IF bits # <<>> /\ Head(bits) = 0 THEN StripZeros(Tail(bits)) ELSE bits

\* x * 100 = x * 64 + x * 32 + x * 4, rounded to a double
DoubleTimes100(x) ==
    LET s == BitsAdd(x.bits \o Zeros(6), Zeros(1) \o x.bits \o Zeros(5))
        p == StripZeros(BitsAdd(s, Zeros(5) \o x.bits \o Zeros(2)))
    IN RoundNearestEven(p, FALSE, x.e + Len(p) - 53)

RECURSIVE BitsToNat(_)
BitsToNat(bits) ==
    IF bits = <<>> THEN 0
    ELSE 2 * BitsToNat(SubSeq(bits, 1, Len(bits) - 1)) + bits[Len(bits)]

\* Math.round(x) for a positive double below 2^31: the integer part plus
\* the first bit after the point
MathRound(x) ==
    IF x.e < -1 THEN 0
    ELSE BitsToNat(SubSeq(x.bits, 1, x.e + 1)) + x.bits[x.e + 2]

\* totalSize > 0 ? Math.round((downloadedSize / totalSize) * 100) : 0
\* (0 / totalSize is 0, and so is its percentage)
Percentage(downloadedSize, totalSize) ==
    IF totalSize.nan \/ totalSize.val <= 0 \/ downloadedSize = 0 THEN 0
    ELSE MathRound(DoubleTimes100(DoubleDiv(downloadedSize, totalSize.val)))

\* parseInt(response.headers['content-length'] || '0')
TotalSize(header) ==
    ParseInt(IF header = Undefined \/ header = <<>> THEN <<"0">> ELSE header)

\* content-length headers of a response, and chunk.length of its chunks
ContentLengths == {Undefined, <<"0">>, <<"a">>, <<"3">>, <<"4", "0">>}
ChunkLengths == {1, 2, 20}

NoSample == [chunk |-> 0, downloaded |-> 0, total |-> Num(0), percentage |-> 0]

\* one chapter task before its first attempt
InitProgress ==
    /\ pcBook = "idle"
    /\ options = NoOptions
    /\ fate = AnyFate
    /\ fs = [p \in Paths |-> "absent"]
    /\ permits = 0
    /\ waitingQueue = <<>>
    /\ pc = [c \in Chapters |-> "none"]
    /\ attempts = [c \in Chapters |-> 0]
    /\ started = [c \in Chapters |-> 0]
    /\ retryWaits = [c \in Chapters |-> 0]
    /\ outcome = [c \in Chapters |-> "Pending"]
    /\ taskResult = [c \in Chapters |-> "pending"]
    /\ completedChapters = 0
    /\ unlinkPending = {}
    /\ lastAllCompleted = FALSE
    /\ auxFailed = {}
    /\ cover = NoCover
    /\ limiter = NoLimiter
    /\ activeDownloads = {}
    /\ series = NoSeries
    /\ auth = NoAuth
    /\ call = [fn |-> "progress", args |-> <<>>,
               result |-> [phase |-> "idle", attempt |-> 0,
                           totalSize |-> Num(0), downloadedSize |-> 0,
                           sample |-> NoSample]]

ProgressFrame == UNCHANGED <<pcBook, options, fate, fs, permits, waitingQueue,
                             pc, attempts, started, retryWaits, outcome, taskResult,
                             completedChapters, unlinkPending,
                             lastAllCompleted, auxFailed, cover, limiter, series, auth, activeDownloads>>

\* an attempt's response arrived: totalSize from the header,
\* let downloadedSize = 0
ProgressResponse(header) ==
    /\ call.fn = "progress"
    /\ call.result.phase \in {"idle", "failed"}
    /\ call.result.attempt <= MaxRetriesInput
    /\ call' = [call EXCEPT !.result =
                   [phase |-> "streaming", attempt |-> @.attempt + 1,
                    totalSize |-> TotalSize(header), downloadedSize |-> 0,
                    sample |-> NoSample]]
    /\ ProgressFrame

\* response.data 'data': downloadedSize += chunk.length; onProgress(sample)
ProgressData(length) ==
    /\ call.fn = "progress"
    /\ call.result.phase = "streaming"
    /\ call.result.downloadedSize + length <= MaxBytes
    /\ LET d == call.result.downloadedSize + length
       IN call' = [call EXCEPT !.result.downloadedSize = d,
                               !.result.sample =
                                  [chunk |-> length, downloaded |-> d,
                                   total |-> call.result.totalSize,
                                   percentage |->
                                      Percentage(d, call.result.totalSize)]]
    /\ ProgressFrame

\* the attempt ends: the promise of downloadChapter resolves or rejects
ProgressEnd(ok) ==
    /\ call.fn = "progress"
    /\ call.result.phase = "streaming"
    /\ call' = [call EXCEPT !.result.phase = IF ok THEN "done" ELSE "failed"]
    /\ ProgressFrame

NextProgress ==
    \/ \E header \in ContentLengths : ProgressResponse(header)
    \/ \E length \in ChunkLengths : ProgressData(length)
    \/ \E ok \in BOOLEAN : ProgressEnd(ok)

SpecProgress == InitProgress /\ [][NextProgress]_vars

\* ------------------------------------------------ specification: SpecLive
\* one run with skipExisting = true on an empty directory in which every
\* pending step of a chapter task (the provider's answer, the response, the
\* end of the stream, the rename, the retry timer), every pending unlink and
\* the settling of Promise.all eventually happen
NextLive ==
    \/ \E co \in ConcurrencyInputs, ro \in RetriesInputs, dirOk \in BOOLEAN :
          StartRun(TRUE, co, ro, AnyFate, dirOk)
    \/ BookStep
    \/ \E c \in Chapters : Transfer(c)

SpecLive ==
    /\ Init
    /\ [][NextLive]_vars
    /\ \A c \in Chapters : WF_vars(Transfer(c))
    /\ \A c \in Chapters : WF_vars(\E ok \in BOOLEAN : UnlinkDone(c, ok))
    /\ WF_vars(JoinAll)

\* ---------------------------------------------- specification: SpecPlan
\* the loop that builds chaptersToDownload taken alone, run twice over one
\* chapter list: a first run and a resuming run on a directory that holds
\* more of the chapter files.  A directory is the set of its file names.
PlanTitles == TitlesOfLen(1)

\* the number put in front of the name of the chapter at index i of
\* `chapters` when k chapters have been pushed to chaptersToDownload
PrefixIndexAfterFilter(i, k) == k
PrefixIndex(i, k) == i

\* for (let i = 0; i < chapters.length; i++) { ... }
RECURSIVE ChaptersToDownload(_, _, _, _, _)
ChaptersToDownload(i, titles, skip, dir, acc) ==
    IF i >= Len(titles) THEN acc
    ELSE LET chapterPath == ChapterPath(PrefixIndex(i, Len(acc)), titles[i + 1])
         IN IF SkipFilter(skip, chapterPath \in dir)
            THEN ChaptersToDownload(i + 1, titles, skip, dir, acc)
            ELSE ChaptersToDownload(i + 1, titles, skip, dir,
                     Append(acc, [index |-> i, path |-> chapterPath]))

\* the directory in which the chapters at the indices of `have` are present
BookDirWith(titles, have) == {ChapterPath(i, titles[i + 1]) : i \in have}

InitPlan ==
    /\ pcBook = "idle"
    /\ options = NoOptions
    /\ fate = AnyFate
    /\ fs = [p \in Paths |-> "absent"]
    /\ permits = 0
    /\ waitingQueue = <<>>
    /\ pc = [c \in Chapters |-> "none"]
    /\ attempts = [c \in Chapters |-> 0]
    /\ started = [c \in Chapters |-> 0]
    /\ retryWaits = [c \in Chapters |-> 0]
    /\ outcome = [c \in Chapters |-> "Pending"]
    /\ taskResult = [c \in Chapters |-> "pending"]
    /\ completedChapters = 0
    /\ unlinkPending = {}
    /\ lastAllCompleted = FALSE
    /\ auxFailed = {}
    /\ cover = NoCover
    /\ limiter = NoLimiter
    /\ activeDownloads = {}
    /\ series = NoSeries
    /\ auth = NoAuth
    /\ call \in {[fn |-> "plan",
                  args |-> [titles |-> t, skipExisting |-> s,
                            first |-> f, resume |-> r],
                  result |-> <<>>] :
                    t \in [1..NumChapters -> PlanTitles], s \in BOOLEAN,
                    f \in SUBSET (0..(NumChapters - 1)),
                    r \in SUBSET (0..(NumChapters - 1))}
    /\ call.args.first \subseteq call.args.resume

\* the loop runs in the first run and in the resuming run
ComputePlans ==
    /\ call.fn = "plan" /\ call.result = <<>>
    /\ call' = [call EXCEPT !.result =
                   <<ChaptersToDownload(0, call.args.titles, call.args.skipExisting,
                         BookDirWith(call.args.titles, call.args.first), <<>>),
                     ChaptersToDownload(0, call.args.titles, call.args.skipExisting,
                         BookDirWith(call.args.titles, call.args.resume), <<>>)>>]
    /\ UNCHANGED <<pcBook, options, fate, fs, permits, waitingQueue,
                   pc, attempts, started, retryWaits, outcome, taskResult,
                   completedChapters, unlinkPending, lastAllCompleted,
                   auxFailed, cover, limiter, series, auth, activeDownloads>>

NextPlan == ComputePlans

SpecPlan == InitPlan /\ [][NextPlan]_vars

\* ---------------------------------------------- specification: SpecActive
\* the runs of Spec with the 'data' events of the transfers, on which the
\* progress callback puts the chapter into activeDownloads
NextActive ==
    \/ \E co \in ConcurrencyInputs, ro \in RetriesInputs, dirOk \in BOOLEAN :
          StartRun(TRUE, co, ro, AnyFate, dirOk)
    \/ BookStep
    \/ \E c \in Chapters : Transfer(c)
    \/ \E c \in Chapters : StreamData(c)

SpecActive == Init /\ [][NextActive]_vars

\* const totalChapters = chaptersToDownload.length
totalChapters == Cardinality(InPlan)

\* Math.round((completedChapters / totalChapters) * 100), in doubles
OverallProgress(completed, total) ==
    IF completed = 0 THEN 0
    ELSE MathRound(DoubleTimes100(DoubleDiv(completed, total)))

\* its values for the counts of a run
OverallProgressOf ==
    [total \in 1..NumChapters |->
        [completed \in 0..total |-> OverallProgress(completed, total)]]

\* ---------------------------------------------- specification: SpecSeries
\* downloadSeries: the books of a series, each downloaded by
\* downloadAudioBook in a directory of its own.  A book of series.works is
\* its seriesOrder, 0 when it has none (a.seriesOrder || 0).
\* the audiobooks of a series as the library lists them: none, one, two out
\* of order, two of which the first has no seriesOrder
SeriesWorks == {<<>>, <<1>>, <<2, 1>>, <<2, 0>>}

\* .sort((a, b) => (a.seriesOrder || 0) - (b.seriesOrder || 0)): stable
InsertSorted(s, x) ==
    LET k == Cardinality({j \in 1..Len(s) : s[j] <= x})
    IN SubSeq(s, 1, k) \o <<x>> \o SubSeq(s, k + 1, Len(s))
RECURSIVE SortBySeriesOrder(_)
SortBySeriesOrder(s) ==
    IF s = <<>> THEN <<>>
    ELSE InsertSorted(SortBySeriesOrder(SubSeq(s, 1, Len(s) - 1)), s[Len(s)])

\* `await this.downloadAudioBook(...)` goes on when the call has settled
BookNotAwaited(p) == p # "idle"
BookAwaited(p) == p \in {"returned", "threw"}

\* chapter tasks of the current book that have not finished
UnfinishedTasks == {c \in Chapters : pc[c] \notin {"none", "finished"}}

\* downloadSeries is called: getSeriesDetails gives the series with its
\* audiobooks sorted by getSeriesBooks, or null
DownloadSeries(found, books, co, ro) ==
    /\ series.pc = "none" /\ pcBook = "idle"
    /\ series' = IF found
                 THEN [pc |-> "loop", works |-> SortBySeriesOrder(books), i |-> 0,
                       options |-> [concurrentDownloads |-> co, maxRetries |-> ro],
                       unjoined |-> 0]
                 ELSE [series EXCEPT !.pc = "threw"]
    /\ UNCHANGED <<pcBook, options, fate, fs, permits, waitingQueue,
                   pc, attempts, started, retryWaits, outcome, taskResult,
                   completedChapters, unlinkPending, lastAllCompleted,
                   auxFailed, cover, limiter, call, auth, activeDownloads>>

\* the loop calls downloadAudioBook for series.works[i]
SeriesNextBook(dirOk) ==
    /\ series.pc = "loop" /\ series.i < Len(series.works)
    /\ StartRun(TRUE, series.options.concurrentDownloads,
                series.options.maxRetries, AnyFate, dirOk)

\* the await of downloadAudioBook is over: the next turn of the loop, or
\* the catch that rethrows; the next book has another directory
SeriesBookEnd ==
    /\ series.pc = "loop" /\ BookAwaited(pcBook)
    /\ series' = [series EXCEPT
                    !.pc = IF pcBook = "threw" THEN "threw" ELSE @,
                    !.i = @ + 1,
                    !.unjoined = @ + Cardinality(UnfinishedTasks)]
    /\ pcBook' = "idle"
    /\ options' = NoOptions
    /\ fate' = AnyFate
    /\ fs' = [p \in Paths |-> "absent"]
    /\ permits' = 0
    /\ waitingQueue' = <<>>
    /\ pc' = [c \in Chapters |-> "none"]
    /\ attempts' = [c \in Chapters |-> 0]
    /\ started' = [c \in Chapters |-> 0]
    /\ retryWaits' = [c \in Chapters |-> 0]
    /\ outcome' = [c \in Chapters |-> "Pending"]
    /\ taskResult' = [c \in Chapters |-> "pending"]
    /\ completedChapters' = 0
    /\ unlinkPending' = {}
    /\ auxFailed' = {}
    /\ activeDownloads' = {}
    /\ UNCHANGED <<lastAllCompleted, cover, limiter, call, auth>>

\* i < series.works.length is false: downloadSeries returns
SeriesLoopEnd ==
    /\ series.pc = "loop" /\ pcBook = "idle" /\ series.i = Len(series.works)
    /\ series' = [series EXCEPT !.pc = "done"]
    /\ UNCHANGED <<pcBook, options, fate, fs, permits, waitingQueue,
                   pc, attempts, started, retryWaits, outcome, taskResult,
                   completedChapters, unlinkPending, lastAllCompleted,
                   auxFailed, cover, limiter, call, auth, activeDownloads>>

NextSeries ==
    \/ \E found \in BOOLEAN, books \in SeriesWorks,
          co \in ConcurrencyInputs, ro \in RetriesInputs :
          DownloadSeries(found, books, co, ro)
    \/ \E dirOk \in BOOLEAN : SeriesNextBook(dirOk)
    \/ BookStep
    \/ \E c \in Chapters : Transfer(c)
    \/ SeriesBookEnd
    \/ SeriesLoopEnd

SpecSeries == Init /\ [][NextSeries]_vars

\* ------------------------------------------- specification: SpecCoverLive
\* the runs of SpecAux in which an enabled step of the run is eventually
\* taken: the event loop delivers the events of the cover transfer and of
\* the chapter transfers.
SpecCoverLive ==
    /\ InitCover
    /\ [][NextAux]_vars
    /\ WF_vars(BookStep)
    /\ WF_vars(AuxStep)
    /\ \A c \in Chapters : WF_vars(Transfer(c))

\* ---------------------------------------------- specification: SpecRetry
\* executeWithRetry called once by each of two callers; the clock moves
\* from timer to timer, so every backoff can be waited out
RetryCallers == {1, 2}

\* the clock reaches the time of a pending timer
RetryTick(k) ==
    /\ limiter.pc[k] \in {"wait", "backoff"}
    /\ limiter.wake[k] > limiter.now
    /\ limiter' = [limiter EXCEPT !.now = limiter.wake[k]]
    /\ RateFrame

NextRetry ==
    \/ \E k \in RetryCallers : RetryTick(k)
    \/ \E k \in RetryCallers : RateCall(k)
    \/ \E k \in RetryCallers : RateWaitDone(k)
    \/ \E k \in RetryCallers, result \in {"ok", "error", "rateLimit"},
          retryAfter \in {0, 1} : RateOperationEnd(k, result, retryAfter)
    \/ \E k \in RetryCallers : RateBackoffDone(k)

SpecRetry == Init /\ [][NextRetry]_vars

\* ---------------------------------------------- specification: SpecAuth
\* the response interceptor of the API client.  A request in flight is a
\* record: kind "api" or "refresh" (the POST of refreshTokenInternal, made
\* through the same axios instance, so the interceptor handles it too),
\* retry: originalRequest._retry, at: "sent" (awaiting the server) or
\* "refreshing" (its interceptor awaits refreshTokenInternal).
MaxRefreshCalls == 3

AuthAnswers(kind) == IF kind = "api" THEN {"ok", "expired", "error"}
                     ELSE {"token", "noToken", "expired", "error"}

\* if (status === 401 && code === 'ExpiredToken' && !originalRequest._retry)
RefreshCondition(answer, retry) == answer = "expired" /\ ~retry

\* the newest request of a chain settled with res ("ok", "token", "noToken"
\* or "rejected"): the interceptor that awaited it goes on.  A refresh that
\* gave a token re-sends the request of that interceptor; one that gave
\* none rejects it with its own error; a rejected refresh clears the tokens
\* and rejects it
RECURSIVE Unwind(_, _, _)
Unwind(a, r, res) ==
    LET chain == a.chain[r]
        n == Len(chain)
    IN IF n = 1
       THEN [a EXCEPT !.chain[r] = <<>>,
                      !.result[r] = IF res = "rejected" THEN "rejected"
                                    ELSE "resolved"]
       ELSE LET parent == chain[n - 1]
                rest == SubSeq(chain, 1, n - 1)
            IN CASE res = "token" ->
                      [a EXCEPT !.token = "refreshed",
                                !.chain[r] = [rest EXCEPT ![n - 1].at = "sent"],
                                !.resends[r] =
                                    IF parent.kind = "api" THEN @ + 1 ELSE @,
                                !.refreshCalls[r] =
                                    IF parent.kind = "refresh" THEN @ + 1 ELSE @]
                 [] res = "noToken" ->
                      Unwind([a EXCEPT !.chain[r] = rest], r, "rejected")
                 [] OTHER ->
                      Unwind([a EXCEPT !.token = "cleared", !.chain[r] = rest],
                             r, "rejected")

AuthFrame == UNCHANGED <<pcBook, options, fate, fs, permits, waitingQueue,
                         pc, attempts, started, retryWaits, outcome, taskResult,
                         completedChapters, unlinkPending, lastAllCompleted,
                         auxFailed, cover, limiter, call, series, activeDownloads>>

\* an API request is sent
AuthRequest(r) ==
    /\ auth.result[r] = "none"
    /\ auth' = [auth EXCEPT
                  !.result[r] = "pending",
                  !.chain[r] = <<[kind |-> "api", retry |-> FALSE, at |-> "sent"]>>]
    /\ AuthFrame

\* the server answers the newest request of the chain: the interceptor runs
\* up to its next await
AuthAnswer(r, answer) ==
    /\ auth.chain[r] # <<>>
    /\ LET n == Len(auth.chain[r])
           top == auth.chain[r][n]
       IN /\ top.at = "sent"
          /\ answer \in AuthAnswers(top.kind)
          /\ IF RefreshCondition(answer, top.retry)
             THEN IF auth.token = "cleared"
                  THEN auth' = Unwind([auth EXCEPT !.chain[r][n].retry = TRUE],
                                      r, "rejected")
                  ELSE /\ auth.refreshCalls[r] < MaxRefreshCalls
                       /\ auth' = [auth EXCEPT
                             !.chain[r] =
                                 Append([@ EXCEPT ![n].retry = TRUE,
                                                  ![n].at = "refreshing"],
                                        [kind |-> "refresh", retry |-> FALSE,
                                         at |-> "sent"]),
                             !.refreshCalls[r] = @ + 1]
             ELSE auth' = Unwind(auth, r,
                                 IF answer \in {"expired", "error"}
                                 THEN "rejected" ELSE answer)
    /\ AuthFrame

NextAuth ==
    \/ \E r \in AuthRequests : AuthRequest(r)
    \/ \E r \in AuthRequests, answer \in {"ok", "token", "noToken", "expired", "error"} :
          AuthAnswer(r, answer)

SpecAuth == Init /\ [][NextAuth]_vars

\* ---------------------------------------------- specification: SpecPages
\* the page loop of searchAndDownload.  The library is the list of its
\* pages as the server cuts them with pageSize 50: every page but the last
\* is full; a page is the number of its works, of the audiobooks among
\* them, and of the audiobooks among them that match a query.
MaxPages == 2
PageSize == 50

PageRecords(works) ==
    {[works |-> w, audio |-> a, matching |-> m] :
        w \in works, a \in {0, 1, PageSize - 1, PageSize}, m \in {0, 1, PageSize}}
Pages(works) == {p \in PageRecords(works) : p.audio <= p.works /\ p.matching \in {0, p.audio}}
FullPages == Pages({PageSize})
LastPages == Pages({1, PageSize - 1, PageSize})
Libraries ==
    {<<>>} \cup
    UNION {{Append(front, last) : front \in [1..(n - 1) -> FullPages], last \in LastPages} :
              n \in 1..MaxPages}

\* worksInLibrary of page `page` (1-based); beyond the last page it is empty
ServerPage(library, page) ==
    IF page <= Len(library) THEN library[page]
    ELSE [works |-> 0, audio |-> 0, matching |-> 0]

\* getAudioBooks / searchAudioBooks: the length of the filtered page
PageBooksLength(p, query) == IF query THEN p.matching ELSE p.audio

RECURSIVE SumPages(_, _, _)
SumPages(library, query, n) ==
    IF n = 0 THEN 0
    ELSE SumPages(library, query, n - 1) + PageBooksLength(library[n], query)

InitPages ==
    /\ pcBook = "idle"
    /\ options = NoOptions
    /\ fate = AnyFate
    /\ fs = [p \in Paths |-> "absent"]
    /\ permits = 0
    /\ waitingQueue = <<>>
    /\ pc = [c \in Chapters |-> "none"]
    /\ attempts = [c \in Chapters |-> 0]
    /\ started = [c \in Chapters |-> 0]
    /\ retryWaits = [c \in Chapters |-> 0]
    /\ outcome = [c \in Chapters |-> "Pending"]
    /\ taskResult = [c \in Chapters |-> "pending"]
    /\ completedChapters = 0
    /\ unlinkPending = {}
    /\ lastAllCompleted = FALSE
    /\ auxFailed = {}
    /\ cover = NoCover
    /\ limiter = NoLimiter
    /\ activeDownloads = {}
    /\ series = NoSeries
    /\ auth = NoAuth
    /\ call \in {[fn |-> "pages",
                  args |-> [library |-> l, query |-> q],
                  result |-> [allBooks |-> 0, currentPage |-> 1,
                              hasMorePages |-> TRUE]] :
                    l \in Libraries, q \in BOOLEAN}

\* one turn of `while (hasMorePages)`
PageLoopTurn ==
    /\ call.fn = "pages" /\ call.result.hasMorePages
    /\ LET pageBooks == PageBooksLength(
                            ServerPage(call.args.library, call.result.currentPage),
                            call.args.query)
       IN call' = [call EXCEPT !.result =
                     IF pageBooks = 0
                     THEN [@ EXCEPT !.hasMorePages = FALSE]
                     ELSE IF pageBooks < PageSize
                     THEN [@ EXCEPT !.allBooks = @ + pageBooks,
                                    !.hasMorePages = FALSE]
                     ELSE [@ EXCEPT !.allBooks = @ + pageBooks,
                                    !.currentPage = @ + 1]]
    /\ UNCHANGED <<pcBook, options, fate, fs, permits, waitingQueue,
                   pc, attempts, started, retryWaits, outcome, taskResult,
                   completedChapters, unlinkPending, lastAllCompleted,
                   auxFailed, cover, limiter, series, auth, activeDownloads>>

NextPages == PageLoopTurn

SpecPages == InitPages /\ [][NextPages]_vars

\* ================================================================ claims
\* a chapter task that is queued at the gate or holds a permit
ActivePcs == HoldingPcs \cup {"waiting"}

\* C1: at most N chapter tasks hold a permit at any time (N the effective
\* concurrency), whether they are inside a transfer attempt or a retry wait.
C1_PermitBound == Cardinality(Holders) <= concurrentDownloads

\* C1 witness: all N permits are held, one of them by a task in its retry
\* wait, while another chapter waits at the gate.
C1_Witness ==
    /\ Cardinality(Holders) = concurrentDownloads
    /\ waitingQueue # <<>>
    /\ \E c \in Chapters : pc[c] = "retryWait"

\* C2: the file at a destination path is never a partially received stream;
\* partial content exists only under a '.tmp' path (also after errors and
\* after a kill).
C2_DestinationNeverPartial ==
    \A p \in Paths : fs[p] = "partial" => EndsWithTmp(p)

\* C2 witness: the process was killed in mid-stream: the partial content
\* lies under the temp path and the destination is absent.
C2_Witness ==
    /\ pcBook = "killed"
    /\ \E i \in Chapters : /\ fs[TempPath(OutputPath(i))] = "partial"
                           /\ fs[OutputPath(i)] = "absent"

\* C3: a completely received stream is committed by moving the temp file
\* onto the destination, also when a file already exists there: whenever a
\* transfer that reached the move ends with the chapter Completed, the
\* destination holds the new content and the temp file is gone, and a
\* transfer that reached the move while the destination exists ends that way.
C3_CommitOverExisting ==
    [][\A c \in Chapters :
         /\ (pc[c] = "moving" /\ outcome'[c] = "Completed")
               => /\ fs'[OutputPath(c)] = "new"
                  /\ fs'[TempPath(OutputPath(c))] = "absent"
         /\ (pc[c] = "moving" /\ PathExists(fs, OutputPath(c))
               /\ pc'[c] \notin {"moving", "none"})
               => /\ outcome'[c] = "Completed"
                  /\ fs'[OutputPath(c)] = "new"
                  /\ fs'[TempPath(OutputPath(c))] = "absent"]_vars

\* C4: an attempt that fails after its temp file was created (write error,
\* response-stream error or failed rename) has issued the delete of the temp
\* file when the failure reaches the retry loop.
C4_TempDeletedOnFailure ==
    [][\A c \in Chapters :
         (pc[c] \in {"streaming", "moving"} /\ attempts'[c] = attempts[c] + 1)
            => c \in unlinkPending']_vars

\* C5: a chapter is reported failed exactly when maxAttempts attempts of it
\* have failed (maxAttempts = options.maxRetries, 3 when unset); it has then
\* been attempted exactly maxAttempts times and is attempted no more.
C5_RetryBound ==
    \A c \in Chapters :
        /\ started[c] <= maxAttempts
        /\ outcome[c] = "Failed" <=> attempts[c] = maxAttempts
        /\ outcome[c] = "Failed" =>
              /\ started[c] = (IF options.maxRetries = 0 THEN 3
                               ELSE options.maxRetries)
              /\ pc[c] \notin ActivePcs

\* C5 witness: with maxRetries unset a chapter has failed terminally after
\* three attempts.
C5_Witness ==
    \E c \in Chapters : /\ options.maxRetries = 0
                        /\ outcome[c] = "Failed"
                        /\ started[c] = 3
                        /\ pc[c] = "finished"

\* C6: a chapter that is Completed after k - 1 failed attempts has been
\* attempted exactly k times, k <= maxAttempts, and is attempted no more.
C6_SuccessEndsAttempts ==
    \A c \in Chapters :
        outcome[c] = "Completed" =>
            /\ started[c] = attempts[c] + 1
            /\ started[c] <= maxAttempts
            /\ pc[c] \notin ActivePcs

\* C6 witness: a chapter failed once, then succeeded: two attempts, Completed.
C6_Witness ==
    \E c \in Chapters : /\ outcome[c] = "Completed"
                        /\ attempts[c] = 1
                        /\ started[c] = 2
                        /\ pc[c] = "finished"

\* the environment lets the transfer of c succeed: one of its attempts meets
\* no error
CanSucceed(c) == fate[c] = "ok"

\* C7: a chapter whose transfer can succeed is never failed and its task
\* never rejected, and if it is in the plan it is Completed when the run
\* ends, whichever of its siblings fail on all their attempts.
C7_Isolation ==
    \A c \in Chapters :
        CanSucceed(c) =>
            /\ outcome[c] # "Failed"
            /\ taskResult[c] # "rejected"
            /\ (pcBook \in {"returned", "threw"} /\ pc[c] # "none")
                  => outcome[c] = "Completed"

\* C7 witness: with one permit, a chapter that fails on all attempts ran
\* first and a later chapter, which waited behind it, is Completed.
C7_Witness ==
    /\ pcBook = "returned"
    /\ concurrentDownloads = 1
    /\ \E c, d \in Chapters : /\ d < c
                              /\ fate[d] = "fail" /\ outcome[d] = "Failed"
                              /\ fate[c] = "ok" /\ outcome[c] = "Completed"

\* C8: when downloadChaptersParallel has returned, every chapter of the plan
\* is Completed or Failed and its task has finished: none waits at the gate,
\* is inside an attempt or inside a retry wait.
C8_JoinAll ==
    pcBook = "returned" =>
        \A c \in Chapters :
            \/ pc[c] = "none" /\ outcome[c] = "Skipped"
            \/ pc[c] = "finished" /\ outcome[c] \in {"Completed", "Failed"}

\* C8 witness: the run returned after one chapter failed terminally and a
\* chapter that had waited at the gate completed.
C8_Witness ==
    /\ pcBook = "returned"
    /\ concurrentDownloads = 1
    /\ \E c, d \in Chapters : /\ d < c
                              /\ outcome[d] = "Failed"
                              /\ outcome[c] = "Completed"

\* C9: downloadAudioBook never throws because of chapter transfers: when it
\* has thrown, no chapter has been attempted, let alone failed.
C9_FailuresDoNotThrow ==
    pcBook = "threw" =>
        \A c \in Chapters : started[c] = 0 /\ outcome[c] # "Failed"

\* C9 witness: the run returned normally with every chapter failed.
C9_Witness ==
    /\ pcBook = "returned"
    /\ \A c \in Chapters : outcome[c] = "Failed"

\* C10: in a run with skipExisting that follows a run in which every chapter
\* ended Completed, no chapter is attempted (so no provider call is made),
\* every chapter file stays as it was and every chapter is reported skipped.
C10_SecondRunSkipsAll ==
    (lastAllCompleted /\ options.skipExisting) =>
        \A c \in Chapters :
            /\ started[c] = 0
            /\ pc[c] = "none"
            /\ fs[OutputPath(c)] = "old"
            /\ pcBook \in {"parallel", "returned"} => outcome[c] = "Skipped"

\* C10 witness: such a second run has returned with every chapter skipped.
C10_Witness ==
    /\ lastAllCompleted /\ options.skipExisting
    /\ pcBook = "returned"
    /\ \A c \in Chapters : outcome[c] = "Skipped"

\* C11: with skipExisting, the plan holds exactly the chapters whose
\* destination is absent when the plan is built: a chapter whose destination
\* exists then gets no task (no acquire, no provider call, no transfer) and
\* is reported skipped, its file stays as it is for the whole run, and every
\* other chapter has been attempted when the run returns.
C11_SkipExisting ==
    /\ [][\A c \in Chapters :
            /\ (pcBook = "chapters" /\ pcBook' \in {"parallel", "returned"}
                  /\ options.skipExisting)
                  => IF PathExists(fs, OutputPath(c))
                     THEN pc'[c] = "none" /\ outcome'[c] = "Skipped"
                     ELSE pc'[c] \in ActivePcs /\ outcome'[c] = "Pending"
            /\ (pcBook \in {"parallel", "returned"} /\ options.skipExisting
                  /\ outcome[c] = "Skipped")
                  => /\ fs'[OutputPath(c)] = fs[OutputPath(c)]
                     /\ started'[c] = 0
                     /\ pc'[c] = "none"]_vars
    /\ [](pcBook = "returned" /\ options.skipExisting =>
             \A c \in Chapters : outcome[c] = "Skipped" <=> started[c] = 0)

\* C11 witness: a re-run with skipExisting after a partial failure has
\* returned: the chapter committed earlier was skipped and kept its old
\* file, the missing one was transferred.
C11_Witness ==
    /\ pcBook = "returned" /\ options.skipExisting
    /\ \E c, d \in Chapters :
          /\ outcome[c] = "Skipped" /\ fs[OutputPath(c)] = "old"
             /\ started[c] = 0
          /\ outcome[d] = "Completed" /\ fs[OutputPath(d)] = "new"
             /\ started[d] >= 1

C13_PermitsReturned ==
    (pcBook \in {"parallel", "returned", "threw"} /\ InPlan # {}) =>
        /\ permits + Cardinality(Holders) = concurrentDownloads
        /\ \A c \in Chapters :
              /\ pc[c] \in ActivePcs => outcome[c] = "Pending"
              /\ pc[c] = "finished" => /\ outcome[c] \in {"Completed", "Failed"}
                                       /\ taskResult[c] = "resolved"
        /\ pcBook = "returned" => /\ permits = concurrentDownloads
                                  /\ waitingQueue = <<>>
                                  /\ Holders = {}

\* C13 witness: with one permit, a task that failed terminally handed its
\* permit to the waiting task, which completed; the run has returned with
\* the permit free again.
C13_Witness ==
    /\ pcBook = "returned"
    /\ concurrentDownloads = 1 /\ permits = 1 /\ waitingQueue = <<>>
    /\ \E c, d \in Chapters : /\ outcome[c] = "Failed" /\ pc[c] = "finished"
                              /\ outcome[d] = "Completed" /\ pc[d] = "finished"

\* C14: the gate is FIFO.  A blocked caller joins the end of waitingQueue,
\* the queue changes in no other way than by release() taking its head, the
\* caller that release() wakes is the oldest waiter, and the permit of a
\* woken caller is reserved for it: free permits plus callers holding or
\* woken always make N, and nobody gets a permit at once while others wait,
\* so a caller arriving between the release and the waiter's resumption
\* queues behind.
C14_FifoGate ==
    /\ [][/\ waitingQueue' # waitingQueue =>
                \/ \E c \in SemCallers :
                      /\ pc[c] = "none" /\ pc'[c] = "waiting"
                      /\ waitingQueue' = Append(waitingQueue, c)
                \/ /\ waitingQueue # <<>>
                   /\ waitingQueue' = Tail(waitingQueue)
                   /\ pc'[Head(waitingQueue)] = "woken"
          /\ \A c \in SemCallers :
                /\ (pc[c] = "waiting" /\ pc'[c] # "waiting")
                      => c = Head(waitingQueue) /\ pc'[c] = "woken"
                /\ (pc[c] = "none" /\ pc'[c] = "holding")
                      => waitingQueue = <<>> /\ permits > 0
                /\ (pc[c] = "woken" /\ pc'[c] # "woken") => pc'[c] = "holding"
         ]_vars
    /\ [](/\ permits >= 0
          /\ permits + Cardinality({c \in SemCallers :
                                       pc[c] \in {"holding", "woken"}})
                = options.concurrentDownloads
          /\ waitingQueue # <<>> => permits = 0
          /\ {c \in SemCallers : pc[c] = "waiting"} = SeqToSet(waitingQueue))

\* C14 witness: with one permit, a waiter has been woken and has not resumed
\* yet, no permit is free, and two other callers are queued behind it.
C14_Witness ==
    /\ options.concurrentDownloads = 1 /\ permits = 0
    /\ \E c \in SemCallers :
          /\ pc[c] = "woken"
          /\ \A d \in SemCallers \ {c} : pc[d] \in {"none", "waiting"}
    /\ Len(waitingQueue) = 2

\* C15: the gate of a run is made with at least one permit, whatever
\* --concurrent was given: while the chapter tasks run, the permits free or
\* held are N and N >= 1.
C15_GateAtLeastOne ==
    pcBook = "parallel" =>
        /\ concurrentDownloads >= 1
        /\ permits + Cardinality(Holders) = concurrentDownloads

\* C16: the attempt limit is at least 1, whatever --retries was given: when
\* the run reports that all chapters are done, every chapter that was not
\* skipped has been attempted at least once.
C16_AttemptLimitAtLeastOne ==
    /\ pcBook \in {"parallel", "returned"} => maxAttempts >= 1
    /\ pcBook = "returned" =>
          \A c \in Chapters : outcome[c] # "Skipped" => started[c] >= 1

\* C17: within a run every chapter follows Pending -> (Skipped | attempting)
\* -> (Completed | Failed): a chapter becomes Skipped only when the plan is
\* built and gets no task, becomes Completed or Failed only out of an
\* attempt of its own task, and once Skipped, Completed or Failed it stays
\* so and is not attempted again; when downloadChaptersParallel returns,
\* every chapter is in one of the three terminal states.
C17_ChapterStateMachine ==
    /\ [][pcBook' \notin {"killed", "idle"} =>
            \A c \in Chapters :
               /\ outcome[c] # "Pending" =>
                     /\ outcome'[c] = outcome[c]
                     /\ pc'[c] = pc[c] /\ pc[c] \in {"none", "finished"}
                     /\ started'[c] = started[c]
               /\ (outcome[c] = "Pending" /\ outcome'[c] = "Skipped") =>
                     /\ pcBook = "chapters"
                     /\ pc'[c] = "none" /\ started'[c] = 0
               /\ (outcome[c] = "Pending"
                     /\ outcome'[c] \in {"Completed", "Failed"}) =>
                     /\ pc[c] \in HoldingPcs /\ started[c] >= 1
                     /\ pc'[c] = "finished"]_vars
    /\ [](pcBook = "returned" =>
             \A c \in Chapters :
                 outcome[c] \in {"Skipped", "Completed", "Failed"})

\* C17 witness: a run has returned with one chapter skipped and another
\* failed after its retries.
C17_Witness ==
    /\ pcBook = "returned"
    /\ \E c, d \in Chapters :
          /\ outcome[c] = "Skipped" /\ pc[c] = "none"
          /\ outcome[d] = "Failed" /\ pc[d] = "finished"
             /\ attempts[d] = maxAttempts

\* C18: a failure of the cover download (request, write of the cover temp
\* file, final rename) never makes downloadAudioBook throw: the cover step
\* is never left by an exception.
C18_CoverFailureHandled ==
    [][pcBook = "cover" => pcBook' # "threw"]_vars

\* C19: a failure to write book-info.json never makes downloadAudioBook
\* throw: the step that saves the book information is never left by an
\* exception.
C19_InfoFailureHandled ==
    [][pcBook = "saveInfo" => pcBook' # "threw"]_vars

\* C20: a failure to write annotation.txt does not abort the run: the step
\* is always followed by the next step of downloadAudioBook, a failed write
\* changes nothing else, and a run in which it failed returns only with
\* every chapter skipped, completed or failed.
C20_AnnotationFailureHandled ==
    /\ [][pcBook = "additional" =>
            /\ pcBook' \in {"additional", "getChapters"}
            /\ UNCHANGED <<fs, pc, outcome, permits, waitingQueue>>]_vars
    /\ []("annotation" \in auxFailed /\ pcBook = "returned" =>
             \A c \in Chapters :
                 outcome[c] \in {"Skipped", "Completed", "Failed"})

\* C20 witness: the write of annotation.txt failed and the run went on: it
\* has returned with a chapter downloaded.
C20_Witness ==
    /\ "annotation" \in auxFailed
    /\ pcBook = "returned"
    /\ \E c \in Chapters : /\ outcome[c] = "Completed" /\ started[c] >= 1
                           /\ fs[OutputPath(c)] = "new"

\* C21: cleanupTempFiles runs before any chapter transfer of the run; when
\* it has finished no '.tmp' file is left in the book directory, and it
\* leaves every file that is not a '.tmp' file as it was.
C21_CleanupRemovesTemps ==
    /\ [][(pcBook = "cleanup" /\ pcBook' # "cleanup") =>
            /\ \A p \in Paths : EndsWithTmp(p) => fs'[p] = "absent"
            /\ \A p \in Paths : ~EndsWithTmp(p) => fs'[p] = fs[p]]_vars
    /\ [](pcBook \in {"idle", "cleanup"} =>
             \A c \in Chapters : started[c] = 0 /\ pc[c] = "none")


\* C22: when cover.jpg, cover.png or cover.webp exists in the book directory
\* as the run reaches the cover step, the run makes no cover request and
\* leaves the cover files as they are; otherwise a book with a cover URL gets
\* exactly one cover request (and a book without one gets none)
C22_CoverOnce ==
    /\ [][(pcBook = "cover" /\ pcBook' \in {"additional", "threw",
                                            "coverStuck"}) =>
            IF \E e \in {".jpg", ".png", ".webp"} : cover.files[e] # "absent"
            THEN cover'.requests = 0 /\ cover'.files = cover.files
            ELSE IF cover.url THEN cover'.requests = 1
                 ELSE cover'.requests = 0]_vars
    /\ [](cover.requests <= 1)
    /\ [](pcBook \in {"idle", "cleanup", "saveInfo", "cover"} =>
            cover.requests = 0)

\* the run is past the cover step of a book with a cover URL whose directory
\* already held cover.png: no request was made and the file is untouched
C22_Witness ==
    /\ pcBook = "additional"
    /\ cover.url
    /\ cover.files[".png"] = "old"
    /\ cover.files[".jpg"] = "absent"
    /\ cover.requests = 0

\* C23: any two operations started through executeWithRetry of one
\* RateLimiter start at least minInterval apart, concurrent callers included
C23_MinIntervalApart ==
    \A i, j \in DOMAIN limiter.starts :
        i < j => limiter.starts[j] - limiter.starts[i] >= MinIntervalMs

\* C24: every attempt (call of downloadChapter) begins with one call of the
\* provider, and the download request is only issued on the provider's
\* answer of that attempt; when the provider gives no URL the attempt fails
\* with no request and no temp file, attempts grows by one, and the chapter
\* either waits for its next attempt or is finished; the attempt after the
\* wait calls the provider again
C24_ProviderOncePerAttempt ==
    [][\A c \in Chapters :
         /\ started'[c] # started[c] /\ pc'[c] # "none" =>
               /\ started'[c] = started[c] + 1
               /\ pc[c] \in {"none", "waiting", "retryWait"}
               /\ pc'[c] = "url"
         /\ pc'[c] = "request" /\ pc[c] # "request" =>
               pc[c] = "url" /\ started'[c] = started[c]
         /\ pc[c] = "url" /\ pc'[c] \notin {"url", "request", "none"} =>
               /\ fs' = fs
               /\ attempts'[c] = attempts[c] + 1
               /\ attempts'[c] <= maxAttempts
               /\ started'[c] = started[c]
               /\ pc'[c] \in {"retryWait", "finished"}
               /\ pc'[c] = "finished" <=> attempts'[c] = maxAttempts
         /\ pc[c] = "retryWait" /\ pc'[c] \notin {"retryWait", "none"} =>
               pc'[c] = "url" /\ started'[c] = started[c] + 1]_vars

\* the provider gave no URL on the first attempt and is asked again on the
\* second: no temp file and no destination exist
C24_Witness ==
    \E c \in Chapters :
        /\ pcBook = "parallel"
        /\ pc[c] = "url" /\ attempts[c] = 1 /\ started[c] = 2
        /\ \A p \in Paths : fs[p] = "absent"

\* C25: the completed count behind the overall progress line equals, at
\* every moment of a run, the number of chapters that have reached
\* Completed; a chapter that ended Failed is not counted
C25_CompletedCountsCompleted ==
    completedChapters = Cardinality({c \in Chapters : outcome[c] = "Completed"})

\* C26: distinct positions of the chapter list get distinct destination
\* paths whatever the titles are: equal titles, titles that sanitize to the
\* same or to the empty string, positions of 1000 and more
C26_DistinctPaths ==
    (call.fn = "chapterPath" /\ call.result # <<>>) =>
        call.result[1] # call.result[2]

\* positions 1 and 1001 of a list whose titles both sanitize to the empty
\* string: the paths were computed
C26_Witness ==
    /\ call.fn = "chapterPath" /\ call.result # <<>>
    /\ call.args.i = 0 /\ call.args.j = 1000
    /\ call.args.titleI = <<"/">> /\ call.args.titleJ = <<" ", " ">>
    /\ call.result[1] = <<"0", "0", "1", ".", " ", ".", "m", "p", "3">>
    /\ call.result[2] = <<"1", "0", "0", "1", ".", " ", ".", "m", "p", "3">>

C28_Percentage ==
    /\ [](call.fn = "progress" =>
            LET s == call.result.sample
            IN /\ s.percentage =
                    (IF s.total.nan \/ s.total.val <= 0 THEN 0
                     ELSE (200 * s.downloaded + s.total.val)
                              \div (2 * s.total.val))
               /\ s.chunk > 0 => s.downloaded = call.result.downloadedSize)
    /\ [][call.fn = "progress" =>
            /\ call'.result.attempt # call.result.attempt =>
                  call'.result.downloadedSize = 0
            /\ (call'.result.attempt = call.result.attempt
                /\ call'.result.downloadedSize # call.result.downloadedSize) =>
                  call'.result.downloadedSize =
                      call.result.downloadedSize + call'.result.sample.chunk]_vars

\* C29: a chapter whose terminal outcome comes on attempt k has waited the
\* retry delay exactly k - 1 times: the delay is waited between consecutive
\* attempts only, never after a successful attempt and never after the last
\* failed one; a chapter that succeeds at once waits no delay
C29_RetryDelays ==
    /\ [](\A c \in Chapters :
            /\ outcome[c] \in {"Completed", "Failed"} =>
                  retryWaits[c] = started[c] - 1
            /\ outcome[c] = "Failed" => started[c] = maxAttempts
            /\ pc[c] = "retryWait" => retryWaits[c] = started[c]
            /\ pc[c] \in {"url", "request", "streaming", "moving", "finished"} =>
                  retryWaits[c] = started[c] - 1)
    /\ [][\A c \in Chapters :
            /\ (outcome'[c] # outcome[c]
                /\ outcome'[c] \in {"Completed", "Failed"}) =>
                  retryWaits'[c] = retryWaits[c] /\ pc'[c] = "finished"
            /\ (started'[c] = started[c] + 1 /\ started[c] >= 1) =>
                  pc[c] = "retryWait"]_vars

\* a chapter completed on its third attempt after two retry delays
C29_Witness ==
    \E c \in Chapters :
        /\ outcome[c] = "Completed"
        /\ started[c] = 3 /\ retryWaits[c] = 2

\* C30: when every transfer attempt eventually succeeds or fails, every
\* chapter task waiting in acquire() eventually gets its permit, every
\* planned chapter eventually has a terminal outcome, and
\* downloadChaptersParallel eventually returns
C30_EveryTaskTerminates ==
    (pcBook = "parallel") ~>
        (/\ pcBook = "returned"
         /\ \A c \in InPlan : /\ started[c] >= 1
                               /\ pc[c] = "finished"
                               /\ outcome[c] \in {"Completed", "Failed"})

\* the run returned after chapter 2 had waited in acquire() behind chapter
\* 1, which used three attempts
C30_Witness ==
    /\ pcBook = "returned" /\ concurrentDownloads = 1
    /\ started[1] = 3 /\ started[2] >= 1
    /\ \A c \in Chapters : outcome[c] \in {"Completed", "Failed"}

\* C31: a chapter task keeps its permit from its first attempt to its
\* terminal outcome, retry waits included, and a chapter left waiting at the
\* gate starts its first transfer only in the step in which a chapter that
\* held a permit reaches its terminal outcome
C31_PermitKeptAcrossRetries ==
    /\ [](pcBook = "parallel" =>
            \A c \in Chapters :
               (started[c] >= 1 /\ outcome[c] = "Pending") => c \in Holders)
    /\ [][pcBook = "parallel" =>
            \A c \in Chapters :
               (started[c] = 0 /\ started'[c] = 1) =>
                  \E d \in Holders \ {c} :
                     /\ outcome[d] = "Pending"
                     /\ outcome'[d] \in {"Completed", "Failed"}]_vars

\* one permit: chapter 1 is in its second retry wait and still Pending,
\* chapter 2 has not started
C31_Witness ==
    /\ pcBook = "parallel" /\ concurrentDownloads = 1
    /\ pc[1] = "retryWait" /\ retryWaits[1] = 2 /\ outcome[1] = "Pending"
    /\ pc[2] = "waiting" /\ started[2] = 0

\* C32: every entry of the plan is named after its 1-based position in the
\* full chapter list, padded with zeros to 3 digits, whatever its place in
\* the plan; the plan holds the chapters that are not skipped, in list
\* order; and a chapter that is in the plan of the first run and of the
\* resuming run has the same path in both
C32_PrefixIsListPosition ==
    (call.fn = "plan" /\ call.result # <<>>) =>
        LET titles == call.args.titles
            Have(r) == IF r = 1 THEN call.args.first ELSE call.args.resume
            Expected(n) ==
                PadStart(ToDecimal(n), 3, "0") \o <<".", " ">>
                    \o sanitizeFileName(titles[n]) \o <<".", "m", "p", "3">>
        IN /\ \A r \in 1..2 :
               LET plan == call.result[r]
               IN /\ \A k \in 1..Len(plan) :
                        /\ plan[k].index \in 0..(Len(titles) - 1)
                        /\ plan[k].path = Expected(plan[k].index + 1)
                        /\ k > 1 => plan[k - 1].index < plan[k].index
                  /\ {plan[k].index : k \in 1..Len(plan)} =
                        {i \in 0..(Len(titles) - 1) :
                            ~(call.args.skipExisting /\ i \in Have(r))}
           /\ \A k1 \in 1..Len(call.result[1]), k2 \in 1..Len(call.result[2]) :
                 call.result[1][k1].index = call.result[2][k2].index
                    => call.result[1][k1].path = call.result[2][k2].path

\* the first chapter is skipped in the resuming run only: the second
\* chapter heads that plan under the prefix 002, the path it had as the
\* second entry of the first run
C32_Witness ==
    /\ call.fn = "plan" /\ call.result # <<>>
    /\ call.args.skipExisting
    /\ call.args.first = {} /\ call.args.resume = {0}
    /\ Len(call.result[1]) = NumChapters
    /\ call.result[2] # <<>>
    /\ call.result[2][1].index = 1
    /\ SubSeq(call.result[2][1].path, 1, 3) = <<"0", "0", "2">>
    /\ call.result[1][2].path = call.result[2][1].path

C34_CompletedChaptersCounter ==
    /\ [](pcBook \in {"parallel", "returned"} =>
            /\ completedChapters =
                  Cardinality({c \in InPlan : outcome[c] \in {"Completed", "Failed"}})
            /\ completedChapters <= totalChapters
            /\ pcBook = "returned" => completedChapters = totalChapters
            /\ totalChapters > 0 =>
                  OverallProgressOf[totalChapters][completedChapters] \in 0..100)
    /\ [][(pcBook = "parallel" /\ pcBook' \in {"parallel", "returned"}) =>
            LET ended == {c \in Chapters :
                            /\ outcome[c] = "Pending"
                            /\ outcome'[c] \in {"Completed", "Failed"}}
            IN /\ completedChapters' = completedChapters + Cardinality(ended)
               /\ Cardinality(ended) <= 1
               /\ \A c \in Chapters :
                     outcome[c] \in {"Completed", "Failed"} => outcome'[c] = outcome[c]
               /\ completedChapters' <= totalChapters =>
                     OverallProgressOf[totalChapters][completedChapters'] >=
                        OverallProgressOf[totalChapters][completedChapters]]_vars

\* a run of two chapters has returned: one Completed after a failed
\* attempt, one Failed, the counter is 2
C34_Witness ==
    /\ pcBook = "returned"
    /\ totalChapters = 2 /\ completedChapters = 2
    /\ \E c, d \in Chapters :
          /\ outcome[c] = "Completed" /\ attempts[c] >= 1
          /\ outcome[d] = "Failed"

\* C35: downloadSeries takes the books in ascending seriesOrder and one
\* after another: when the loop leaves a book every chapter task of that book
\* has finished, so no chapter task of an earlier book is alive while a
\* later book is downloaded, and the chapter transfers running at any time
\* are at most `concurrency`
C35_SeriesSequential ==
    /\ [](series.pc \in {"loop", "done", "threw"} =>
            /\ \A j, k \in 1..Len(series.works) :
                  j < k => series.works[j] <= series.works[k]
            /\ series.i <= Len(series.works)
            /\ series.unjoined = 0
            /\ Cardinality({c \in Chapters :
                               pc[c] \in {"url", "request", "streaming", "moving"}})
                  + series.unjoined
                  <= EffectiveConcurrency(series.options.concurrentDownloads))
    /\ [][(series.pc = "loop" /\ series.i' # series.i) =>
            /\ series.i' = series.i + 1
            /\ pcBook \in {"returned", "threw"}
            /\ \A c \in Chapters : pc[c] \in {"none", "finished"}]_vars

\* the second book of a series whose sorted orders are 1, 2 (the book of order 2)
\* is in its chapter transfers after the first book returned
C35_Witness ==
    /\ series.pc = "loop" /\ series.works = <<1, 2>> /\ series.i = 1
    /\ pcBook = "parallel"
    /\ \E c \in Chapters : pc[c] = "streaming"

\* C36: a run that has reached the cover step eventually leaves it with
\* downloadCover settled: downloadAudioBook goes on to the next step, or
\* throws
C36_CoverSettles ==
    (pcBook = "cover") ~> (pcBook \in {"additional", "threw"})

\* C37: one call of executeWithRetry invokes the operation at most
\* maxRetries (3) times; when an invocation fails with an error that is not
\* of the rate-limit class the call throws that error at once, with no
\* further invocation; when the invocation that fails with a rate-limit
\* error is the third, the call throws that error
C37_ExecuteWithRetry ==
    /\ [](\A k \in RateCallers :
            /\ limiter.invoked[k] <= LimiterMaxRetries
            /\ (limiter.pc[k] = "threw" /\ limiter.lastError[k] = "rateLimit")
                  => limiter.invoked[k] = LimiterMaxRetries)
    /\ [][\A k \in RateCallers :
            /\ (limiter.pc[k] = "threw") =>
                  /\ limiter.pc'[k] = "threw"
                  /\ limiter.invoked'[k] = limiter.invoked[k]
                  /\ limiter.lastError'[k] = limiter.lastError[k]
            /\ (limiter.pc[k] = "operation" /\ limiter.pc'[k] # "operation"
                  /\ limiter.lastError'[k] = "error") =>
                  limiter.pc'[k] = "threw"
            /\ (limiter.pc[k] = "operation" /\ limiter.pc'[k] \notin {"operation", "returned"}
                  /\ limiter.lastError'[k] = "rateLimit"
                  /\ limiter.invoked[k] = LimiterMaxRetries) =>
                  limiter.pc'[k] = "threw"]_vars

\* one call has thrown the rate-limit error of its third invocation, the
\* other the plain error of its second invocation, which followed a
\* rate-limit error
C37_Witness ==
    /\ limiter.pc[1] = "threw" /\ limiter.lastError[1] = "rateLimit"
    /\ limiter.invoked[1] = 3
    /\ limiter.pc[2] = "threw" /\ limiter.lastError[2] = "error"
    /\ limiter.invoked[2] = 2

\* C38: the handling of one API request sends at most one request to the
\* refresh-token endpoint and re-sends the API request at most once
C38_OneRefreshOneResend ==
    \A r \in AuthRequests :
        /\ auth.refreshCalls[r] <= 1
        /\ auth.resends[r] <= 1

\* C39: when the page loop has ended, allBooks holds every audiobook of the
\* library (with a query: every audiobook that matches it), and the loop
\* has asked for every page of the library
C39_CollectsEveryAudiobook ==
    (call.fn = "pages" /\ ~call.result.hasMorePages) =>
        /\ call.result.allBooks =
              SumPages(call.args.library, call.args.query, Len(call.args.library))
        /\ call.result.currentPage >= Len(call.args.library)

====
